---- MODULE Spec2Model ----
(***************************************************************************)
(* Time relay firmware (src/src/time_relay.py): the deferred event bus     *)
(* (RObject), the relay scheduler (Program), the display's transient       *)
(* message (Display), the persistent store (Store) and the menu with its   *)
(* controllers, driven by the main loop and by the timer callbacks.        *)
(***************************************************************************)
EXTENDS Integers, Sequences, FiniteSets, TLC

\* ------------------------------------------------------------------ bounds
\* largest duration (minutes) a controller is driven to in the model
MaxMinutes == 1
\* clock bound (seconds) of the scheduler-only specification
MaxTime == 62
\* clock bound (seconds) of the whole-system specification
MaxTicks == 1
\* polls of the input that see the encoder or the button move
MaxInputs == 6
\* clock bound (seconds) of the specification of Program.receive
MaxElapsed == 3
\* the controller exits given to the bus on its own
MaxRequests == 3
\* the controller exits given to the bus with its scheduling
MaxMessages == 2
\* the idle timer on the bus: the clock runs to MaxQuiet seconds
MaxQuiet == 50
\* the idle timer on the bus: the polls that find an input
MaxKeys == 2

\* ------------------------------------------------------- program constants
ON == 1
OFF == 0
STATE_STOPPED == 0
STATE_OFFLINE == 1
STATE_ONLINE == 2
MODE_SELECT == 0
MODE_EDIT == 1
MODE_ACTIVE == 1
MODE_INACTIVE == 0
\* seconds per minute: ControllerTime.on_exit emits time*60
SecPerMin == 60
IDLE_TIMEOUT == 30
TIMEOUT_CHECK == 10
\* wrap limit of a duration
TimeLimit == 6000

\* registered objects, in registration order (RObject._objects)
LCD == 1
CORE == 2
TITLE == 3
ONLINE_C == 4
OFFLINE_C == 5
ACTIONS_C == 6
MENU == 7
IDLE == 8
EVENTS == 9
NObj == 9
Objects == 1..NObj

\* RObject._objects after construction
Registered == <<LCD, CORE, TITLE, ONLINE_C, OFFLINE_C, ACTIONS_C, MENU, IDLE, EVENTS>>

\* the items of the menu, by line
MenuItemsSwapped == <<TITLE, OFFLINE_C, ONLINE_C, ACTIONS_C>>
MenuItems == <<TITLE, ONLINE_C, OFFLINE_C, ACTIONS_C>>
Selectable(o) == o # TITLE
EventName(o) == IF o = ONLINE_C THEN "online_changed" ELSE "offline_changed"
TimeCtrls == {ONLINE_C, OFFLINE_C}

null_action == "<= "
actions_base == <<"RESET", "REBOOT", null_action>>
actions(m) == IF m = MODE_INACTIVE THEN <<"START ON", "START OFF">> \o actions_base
              ELSE <<"STOP", "NEXT">> \o actions_base
ActionEventLower(a) ==
  CASE a = "START ON" -> "start on"
    [] a = "START OFF" -> "start off"
    [] a = "STOP" -> "stop"
    [] a = "NEXT" -> "next"
    [] a = "RESET" -> "reset"
    [] a = "REBOOT" -> "reboot"
    [] OTHER -> "<= "
\* action.lower().replace(' ', '_')
ActionEvent(a) ==
  CASE a = "START ON" -> "start_on"
    [] a = "START OFF" -> "start_off"
    [] a = "STOP" -> "stop"
    [] a = "NEXT" -> "next"
    [] a = "RESET" -> "reset"
    [] a = "REBOOT" -> "reboot"
    [] OTHER -> "<=_"

VARIABLES
  \* Program
  state, timer, on_time, off_time, eta, last_checked_time, led_on, led_off, power,
  \* time.time()
  now,
  \* RObject: every object's queue, and the position of process_events (recv:
  \* the objects that have received the event of this pass last taken)
  events, pc, item, ev, c, flush, recv,
  \* Display
  render_enabled, lcd_timer, lcd_message,
  \* the LCD: columns 0 and 19 of its four lines, and the lines that show
  \* their controller's text
  col0, col19, drawn,
  \* Store (options.json)
  store,
  \* ControllerTime.time, ControllerActions, ControllerTitle, Menu, Events
  time, act_index, act_max, act_mode, title_eta, title_mode,
  menu_mode, menu_index, last_btn_value,
  \* history: a restart was handled while ONLINE and nothing was asked since
  restarted,
  \* history: how start_timer returned in the step just taken, "none" if the
  \* step called no start_timer
  start_ret,
  \* history: the polls so far that saw an input
  inputs,
  \* history: the scheduler handled a reset and no poll has found the bus
  \* quiescent since
  was_reset,
  \* history of one duration controller: the value its run of successive
  \* on_left calls began at (NoneV: no run is followed), how many calls the run
  \* has and how many of them wrapped; the controller's call just made; the
  \* caller default of its construction
  d0, lefts, wraps, op, init_time,
  \* history: a timer callback has run since process_events was entered
  fired,
  \* one handler of the scheduler taken statement by statement: the statement
  \* it is at ("idle": no handler is open), its locals, the scheduler and the
  \* event as the handler found them, and whether the timer has fired and its
  \* callback is still to run
  hpc, loc, pre, due,
  \* IdleTimer: is_idle, last_active, its periodic timer armed, and its
  \* callback due (the timer has fired, on_idle_timeout is still to run)
  is_idle, last_active, idle_timer, idle_due,
  \* Events._is_idle_mode; the backlight of the LCD
  is_idle_mode, backlight,
  \* history: what became of the input of the last poll ("none": no input,
  \* "menu": passed to the Menu, "withheld")
  key

progVars == <<state, timer, on_time, off_time, eta, last_checked_time, led_on, led_off, power>>
busVars == <<pc, item, ev, c, flush, recv>>
msgVars == <<render_enabled, lcd_timer, lcd_message>>
dispVars == <<msgVars, col0, col19, drawn>>
uiVars == <<time, act_index, act_max, act_mode, title_eta, title_mode,
            menu_mode, menu_index, last_btn_value>>
durVars == <<d0, lefts, wraps, op, init_time>>
raceVars == <<hpc, loc, pre, due>>
idleVars == <<is_idle, last_active, idle_timer, idle_due, is_idle_mode, backlight, key>>
vars == <<progVars, now, events, busVars, dispVars, store, uiVars, restarted, start_ret, inputs,
         was_reset, durVars, fired, raceVars, idleVars>>

\* no handler is open: the locals and the record of the entry hold nothing
NoLoc == [offs |-> 0, br |-> 0, st |-> 0, v |-> 0, lo |-> 0, ret |-> "idle"]
NoProg == [state |-> 0, timer |-> FALSE, on_time |-> 0, off_time |-> 0, eta |-> 0,
           last_checked_time |-> 0, led_on |-> 0, led_off |-> 0, power |-> 0]
NoPre == [S |-> NoProg, e |-> <<>>, cb |-> FALSE]
RaceIdle == hpc = "idle" /\ loc = NoLoc /\ pre = NoPre /\ due = FALSE
\* IdleTimer.__init__ at clock value t, Events.__init__, the LCD after its
\* construction
IdleInit(t) ==
  /\ is_idle = FALSE /\ last_active = t /\ idle_timer = TRUE /\ idle_due = FALSE
  /\ is_idle_mode = FALSE /\ backlight = TRUE
  /\ key = "none"

\* ---------------------------------------------------------------- helpers
NoEv == <<>>
Ev(name, args) == <<name, args>>
Name(e) == e[1]
Args(e) == e[2]
Last(s) == s[Len(s)]
Front(s) == SubSeq(s, 1, Len(s) - 1)
Max(a, b) == IF a >= b THEN a ELSE b

\* RObject.emit: append to the caller's own queue
EmitBroadcast(q, o, e) == [x \in DOMAIN q |-> Append(q[x], e)]
Emit(q, o, e) == [q EXCEPT ![o] = Append(@, e)]

\* Python's None where a number is expected
NoneV == -1

\* ------------------------------------------------------------------ Store
Keys == {"online_changed", "offline_changed"}
\* Store.get(key) with default None
StoreGet(s, k) == IF k \in DOMAIN s THEN s[k] ELSE NoneV
StoreSetSkips(s, k, v) == s
StoreSet(s, k, v) == [x \in (DOMAIN s) \cup {k} |-> IF x = k THEN v ELSE s[x]]
StoreClear == [x \in {} |-> 0]
\* Python's `a or b`: None and 0 are false
Or(a, b) == IF a = NoneV \/ a = 0 THEN b ELSE a
\* ControllerTime.restore_value(init_time)
restore_value(s, k, default) == Or(Or(StoreGet(s, k), default), 0)
\* ControllerOnline() and ControllerOffline() are constructed with no
\* init_time
RestoreValue(s, k) == restore_value(s, k, NoneV)

\* ---------------------------------------------------------------- Display
Rows == 0..3
Blank == [i \in Rows |-> " "]
\* lcd.clear()
LcdClear == col0' = Blank /\ col19' = Blank /\ drawn' = {}

\* Display.print_line: what the display holds after it, new for cur
print_line_always(enabled, cur, new) == new
print_line(enabled, cur, new) == IF enabled THEN new ELSE cur

\* Controller.render of the given lines
Render(lines) == drawn' = print_line(render_enabled, drawn, drawn \cup lines)

\* Display.show_message: the title and the centred text leave columns 0 and 19
\* blank
ShowMessage(text) ==
  /\ lcd_message' = text
  /\ render_enabled' = FALSE
  /\ lcd_timer' = TRUE
  /\ LcdClear

\* Display.hide_message, the one-shot timer's callback
HideMessage ==
  /\ lcd_timer
  /\ pc # "reset"
  /\ lcd_timer' = FALSE
  /\ render_enabled' = TRUE
  /\ lcd_message' = ""
  /\ LcdClear
  /\ events' = Emit(events, LCD, Ev("rerender", <<>>))
  /\ start_ret' = "none" /\ UNCHANGED <<inputs, was_reset, durVars>>
  /\ fired' = (fired \/ pc = "process") /\ UNCHANGED <<raceVars, idleVars>>
  /\ UNCHANGED <<progVars, now, busVars, store, uiVars, restarted>>

\* ---------------------------------------------------------------- Program
\* start_timer: which way it returns
StartTimerNoStateGuard(on, off, st) ==
  IF on = 0 THEN "on_zero" ELSE IF off = 0 THEN "off_zero" ELSE "ok"
StartTimerNoZeroGuard(on, off, st) ==
  IF st # STATE_STOPPED THEN "running" ELSE "ok"
StartTimerResult(on, off, st) ==
  IF on = 0 THEN "on_zero"
  ELSE IF off = 0 THEN "off_zero"
  ELSE IF st # STATE_STOPPED THEN "running"
  ELSE "ok"

\* stop_timer: the timer it leaves
StopTimerKeeps(st, tm) == tm
StopTimerValue(st, tm) == IF st = STATE_STOPPED THEN tm ELSE FALSE

\* on_state_triggered: set_power(max(0, state - 1))
PowerOfInverted(st) == IF st = STATE_ONLINE THEN OFF ELSE ON
PowerOf(st) == Max(0, st - 1)

\* update_handler: the phase ends
ExpiredNoForce(offs, dur, force_switch) == offs >= dur
ExpiredByForce(offs, dur, force_switch) == force_switch
Expired(offs, dur, force_switch) == offs >= dur \/ force_switch

\* set_power(value, led_off_value); led_off_value = -1 stands for None
SetPower(value, led_off_value) ==
  LET v == IF value # 0 THEN 1 ELSE 0 IN
  /\ led_on' = v
  /\ led_off' = IF led_off_value >= 0 THEN led_off_value ELSE 1 - v
  /\ power' = v

\* Program.stop
Stop ==
  /\ timer' = StopTimerValue(state, timer)
  /\ state' = STATE_STOPPED
  /\ events' = Emit(events, CORE, Ev("set_state", <<STATE_STOPPED>>))
  /\ SetPower(OFF, OFF)
  /\ eta' = 0
  /\ UNCHANGED <<on_time, off_time, last_checked_time, dispVars>>

\* receive('start_on') / receive('start_off'): start_timer, set_state, set_power
Start(st, value) ==
  LET r == StartTimerResult(on_time, off_time, state) IN
     CASE r = "on_zero" -> ShowMessage("ON time is ZERO") /\ UNCHANGED <<progVars, events>>
       [] r = "off_zero" -> ShowMessage("OFF time is ZERO") /\ UNCHANGED <<progVars, events>>
       [] r = "running" -> UNCHANGED <<progVars, events, dispVars>>
       [] OTHER ->
            /\ timer' = TRUE
            /\ last_checked_time' = now
            /\ eta' = 0
            /\ state' = st
            /\ events' = Emit(events, CORE, Ev("set_state", <<st>>))
            /\ SetPower(value, -1)
            /\ UNCHANGED <<on_time, off_time, dispVars>>

\* update_handler at clock value t
UpdateHandler(t, force_switch) ==
  LET offs == t - last_checked_time
      dur == IF state = STATE_ONLINE THEN on_time ELSE off_time
      next == IF state = STATE_ONLINE THEN STATE_OFFLINE ELSE STATE_ONLINE
  IN
  IF state # STATE_STOPPED /\ Expired(offs, dur, force_switch)
  THEN \* on_state_triggered(next), then update_display
       /\ last_checked_time' = t
       /\ eta' = 0
       /\ state' = next
       /\ SetPower(PowerOf(next), -1)
       /\ events' = Emit(Emit(events, CORE, Ev("set_state", <<next>>)),
                         CORE, Ev("update_eta", <<0>>))
       /\ UNCHANGED <<timer, on_time, off_time>>
  ELSE LET e == IF state = STATE_STOPPED THEN eta ELSE dur - offs IN
       /\ eta' = e
       /\ events' = Emit(events, CORE, Ev("update_eta", <<e>>))
       /\ UNCHANGED <<state, timer, on_time, off_time, last_checked_time,
                      led_on, led_off, power>>

ProgramReceiveRearms(e) ==
  /\ start_ret' = IF Name(e) \in {"start_on", "start_off"}
                  THEN StartTimerResult(on_time, off_time, state) ELSE "none"
  /\ CASE Name(e) = "online_changed" ->
          /\ on_time' = Args(e)[1] /\ last_checked_time' = now
          /\ UNCHANGED <<state, timer, off_time, eta, led_on, led_off,
                         power, events, dispVars, store, restarted>>
     [] Name(e) = "offline_changed" ->
          /\ off_time' = Args(e)[1] /\ last_checked_time' = now
          /\ UNCHANGED <<state, timer, on_time, eta, led_on, led_off,
                         power, events, dispVars, store, restarted>>
     [] Name(e) = "stop" -> Stop /\ UNCHANGED <<store, restarted>>
     [] Name(e) = "start_on" -> Start(STATE_ONLINE, ON) /\ UNCHANGED <<store, restarted>>
     [] Name(e) = "start_off" -> Start(STATE_OFFLINE, OFF) /\ UNCHANGED <<store, restarted>>
     [] Name(e) = "restart" ->
          /\ events' = Emit(Emit(events, CORE, Ev("stop", <<>>)), CORE, Ev("start", <<>>))
          /\ restarted' = (restarted \/ state = STATE_ONLINE)
          /\ UNCHANGED <<progVars, dispVars, store>>
     [] Name(e) = "reset" -> Stop /\ store' = StoreClear /\ UNCHANGED restarted
     [] Name(e) = "reboot" -> Stop /\ UNCHANGED <<store, restarted>>
     [] Name(e) = "next" ->
          UpdateHandler(now, TRUE) /\ UNCHANGED <<dispVars, store, restarted>>
     [] OTHER -> UNCHANGED <<progVars, events, dispVars, store, restarted>>
\* Program.receive; the nested process_events and reset() of 'reboot' are the
\* bus steps that follow (flush)
ProgramReceive(e) ==
  /\ start_ret' = IF Name(e) \in {"start_on", "start_off"}
                  THEN StartTimerResult(on_time, off_time, state) ELSE "none"
  /\ CASE Name(e) = "online_changed" ->
          /\ on_time' = Args(e)[1]
          /\ UNCHANGED <<state, timer, off_time, eta, last_checked_time, led_on, led_off,
                         power, events, dispVars, store, restarted>>
     [] Name(e) = "offline_changed" ->
          /\ off_time' = Args(e)[1]
          /\ UNCHANGED <<state, timer, on_time, eta, last_checked_time, led_on, led_off,
                         power, events, dispVars, store, restarted>>
     [] Name(e) = "stop" -> Stop /\ UNCHANGED <<store, restarted>>
     [] Name(e) = "start_on" -> Start(STATE_ONLINE, ON) /\ UNCHANGED <<store, restarted>>
     [] Name(e) = "start_off" -> Start(STATE_OFFLINE, OFF) /\ UNCHANGED <<store, restarted>>
     [] Name(e) = "restart" ->
          /\ events' = Emit(Emit(events, CORE, Ev("stop", <<>>)), CORE, Ev("start", <<>>))
          /\ restarted' = (restarted \/ state = STATE_ONLINE)
          /\ UNCHANGED <<progVars, dispVars, store>>
     [] Name(e) = "reset" -> Stop /\ store' = StoreClear /\ UNCHANGED restarted
     [] Name(e) = "reboot" -> Stop /\ UNCHANGED <<store, restarted>>
     [] Name(e) = "next" ->
          UpdateHandler(now, TRUE) /\ UNCHANGED <<dispVars, store, restarted>>
     [] OTHER -> UNCHANGED <<progVars, events, dispVars, store, restarted>>

\* ------------------------------------------------- construction and reset()
\* the queues after module import and main(): Program.__init__ emits set_state,
\* each ControllerTime.__init__ calls on_exit, IdleTimer.__init__ emits idle_off
InitEventsQuiet(t) ==
  [o \in Objects |->
     CASE o = CORE -> <<Ev("set_state", <<STATE_STOPPED>>)>>
       [] o = IDLE -> <<Ev("idle_off", <<>>)>>
       [] OTHER -> <<>>]
InitEvents(t) ==
  [o \in Objects |->
     CASE o = CORE -> <<Ev("set_state", <<STATE_STOPPED>>)>>
       [] o \in TimeCtrls -> <<Ev(EventName(o), <<t[o] * SecPerMin>>)>>
       [] o = IDLE -> <<Ev("idle_off", <<>>)>>
       [] OTHER -> <<>>]

\* ControllerTime.__init__ for both controllers: restore_value from what the
\* flash holds, then on_exit stores it back
InitTime(s) == [o \in TimeCtrls |-> RestoreValue(s, EventName(o))]
InitStore(s) == [k \in Keys |-> RestoreValue(s, k)]

\* what options.json may hold when the firmware starts
PersistedStores == UNION {[K -> 0..MaxMinutes] : K \in SUBSET Keys}

\* Menu.__init__: the first selectable item (0-based line)
FirstSelectable == CHOOSE i \in 0..3 : /\ Selectable(MenuItems[i + 1])
                                       /\ \A j \in 0..(i - 1) : ~Selectable(MenuItems[j + 1])

\* the relay pin is made an output with no value given: it holds the level
\* the chip's reset leaves, low
Init ==
  /\ state = STATE_STOPPED /\ timer = FALSE /\ on_time = 0 /\ off_time = 0
  /\ eta = 0 /\ last_checked_time = 0 /\ led_on = 0 /\ led_off = 0 /\ power = 0
  /\ now = 0
  /\ \E s \in PersistedStores :
       /\ time = InitTime(s)
       /\ store = InitStore(s)
       /\ events = InitEvents(InitTime(s))
  /\ pc = "update" /\ item = 1 /\ ev = NoEv /\ c = 1 /\ flush = FALSE /\ recv = <<>>
  /\ render_enabled = TRUE /\ lcd_timer = FALSE /\ lcd_message = ""
  /\ col0 = [Blank EXCEPT ![FirstSelectable] = ">"] /\ col19 = Blank /\ drawn = Rows
  /\ act_index = 0 /\ act_max = 0 /\ act_mode = MODE_INACTIVE
  /\ title_eta = 0 /\ title_mode = STATE_STOPPED
  /\ menu_mode = MODE_SELECT /\ menu_index = FirstSelectable
  /\ last_btn_value = 1
  /\ restarted = FALSE
  /\ start_ret = "none" /\ inputs = 0
  /\ was_reset = FALSE
  /\ d0 = NoneV /\ lefts = 0 /\ wraps = 0 /\ op = "none" /\ init_time = NoneV
  /\ fired = FALSE
  /\ RaceIdle
  /\ IdleInit(0)

\* machine.reset(): the firmware starts again, the flash keeps options.json
MachineReset ==
  /\ pc = "reset"
  /\ state' = STATE_STOPPED /\ timer' = FALSE /\ on_time' = 0 /\ off_time' = 0
  /\ eta' = 0 /\ last_checked_time' = 0 /\ led_on' = 0 /\ led_off' = 0 /\ power' = 0
  /\ now' = 0
  /\ time' = InitTime(store)
  /\ store' = InitStore(store)
  /\ events' = InitEvents(InitTime(store))
  /\ pc' = "update" /\ item' = 1 /\ ev' = NoEv /\ c' = 1 /\ flush' = FALSE /\ recv' = <<>>
  /\ render_enabled' = TRUE /\ lcd_timer' = FALSE /\ lcd_message' = ""
  /\ col0' = [Blank EXCEPT ![FirstSelectable] = ">"] /\ col19' = Blank /\ drawn' = Rows
  /\ act_index' = 0 /\ act_max' = 0 /\ act_mode' = MODE_INACTIVE
  /\ title_eta' = 0 /\ title_mode' = STATE_STOPPED
  /\ menu_mode' = MODE_SELECT /\ menu_index' = FirstSelectable
  /\ last_btn_value' = 1
  /\ restarted' = FALSE
  /\ start_ret' = "none" /\ UNCHANGED inputs
  /\ was_reset' = FALSE
  /\ UNCHANGED durVars /\ fired' = FALSE /\ UNCHANGED raceVars
  /\ is_idle' = FALSE /\ last_active' = 0 /\ idle_timer' = TRUE /\ idle_due' = FALSE
  /\ is_idle_mode' = FALSE /\ backlight' = TRUE /\ key' = "none"

\* ------------------------------------------------------- timer callbacks
\* the periodic timer (period 1000 ms) fires update_handler one second on
TickAt(bound) ==
  /\ timer
  /\ pc # "reset"
  /\ now < bound
  /\ now' = now + 1
  /\ UpdateHandler(now + 1, FALSE)
  /\ start_ret' = "none" /\ UNCHANGED <<inputs, was_reset, durVars>>
  /\ fired' = (fired \/ pc = "process") /\ UNCHANGED <<raceVars, idleVars>>
  /\ UNCHANGED <<busVars, dispVars, store, uiVars, restarted>>

\* ------------------------------------------ the scheduler on its own
\* the events the bus can hand to Program.receive
DurationEvents ==
  {Ev(n, <<m * SecPerMin>>) : n \in Keys, m \in 0..MaxMinutes}
CommandEvents ==
  {Ev(n, <<>>) : n \in {"stop", "start_on", "start_off", "reset", "reboot", "next"}}

\* the bus has taken everything emitted so far
Drained == events[LCD] = <<>> /\ events[CORE] = <<>>

\* process_events hands e to Program.receive; after 'reboot' the nested
\* process_events and reset() follow
Handle(e) ==
  /\ pc = "update"
  /\ Drained
  /\ ProgramReceive(e)
  /\ flush' = (Name(e) = "reboot")
  /\ pc' = IF Name(e) = "reboot" THEN "reset" ELSE pc
  /\ was_reset' = (Name(e) = "reset")
  /\ UNCHANGED <<now, item, ev, c, recv, uiVars, inputs, durVars, fired, raceVars, idleVars>>

\* the bus takes the events Program.receive ignores; of their receivers the
\* display is kept: the status line renders, the menu (in SELECT mode, no
\* input reaches it here) renders on rerender
Consume ==
  /\ pc = "update"
  /\ \E o \in {LCD, CORE} :
       /\ events[o] # <<>>
       /\ Name(Last(events[o])) \in {"set_state", "update_eta", "rerender"}
       /\ events' = [events EXCEPT ![o] = Front(@)]
       /\ IF Name(Last(events[o])) = "rerender"
          THEN /\ drawn' = print_line(render_enabled, drawn, Rows)
               /\ col0' = print_line(render_enabled, col0,
                                     [Blank EXCEPT ![menu_index] = ">"])
               /\ UNCHANGED col19
          ELSE /\ drawn' = print_line(render_enabled, drawn, drawn \cup {0})
               /\ UNCHANGED <<col0, col19>>
  /\ start_ret' = "none" /\ UNCHANGED <<inputs, was_reset, durVars, fired, raceVars, idleVars>>
  /\ UNCHANGED <<progVars, now, busVars, msgVars, store, uiVars, restarted>>

HideMessageP == Drained /\ HideMessage

TickP == Drained /\ TickAt(MaxTime)

NextProgram ==
  \/ \E e \in DurationEvents \cup CommandEvents : Handle(e)
  \/ Consume \/ TickP \/ HideMessageP \/ MachineReset

\* the scheduler's receive, one event at a time: process_events takes an
\* event (Arrive) and reaches Program in its loop over the objects (HandleEv)
Arrive(e) ==
  /\ pc = "update" /\ Drained /\ ev = NoEv
  /\ ev' = e /\ c' = CORE /\ pc' = "process"
  /\ start_ret' = "none"
  /\ UNCHANGED <<progVars, now, events, item, flush, recv, dispVars, store, uiVars,
                 restarted, inputs, was_reset, durVars>>
  /\ fired' = FALSE /\ UNCHANGED <<raceVars, idleVars>>
HandleEv ==
  /\ pc = "process" /\ ev # NoEv /\ c = CORE
  /\ ProgramReceive(ev)
  /\ ev' = NoEv
  /\ flush' = (Name(ev) = "reboot")
  /\ pc' = IF Name(ev) = "reboot" THEN "reset" ELSE "update"
  /\ was_reset' = (Name(ev) = "reset")
  /\ UNCHANGED <<now, item, c, recv, uiVars, inputs, durVars, fired, raceVars, idleVars>>
TickR == Drained /\ TickAt(MaxElapsed)
NextReceive ==
  \/ \E e \in DurationEvents \cup CommandEvents : Arrive(e)
  \/ HandleEv \/ Consume \/ TickR \/ HideMessageP \/ MachineReset

\* a first start: nothing persisted on the flash
InitProgram == Init /\ store = InitStore(StoreClear)
SpecProgram == InitProgram /\ [][NextProgram]_vars
SpecReceive == InitProgram /\ [][NextReceive]_vars
\* ------------------------ the timer callback against one handler of main
\* the callback runs to its end once it is entered; main's handler is taken
\* one statement at a time, and the callback may run between any two of them.
\* The scheduler's fields as one value
Prog ==
  [state |-> state, timer |-> timer, on_time |-> on_time, off_time |-> off_time,
   eta |-> eta, last_checked_time |-> last_checked_time,
   led_on |-> led_on, led_off |-> led_off, power |-> power]
Assign(S) ==
  /\ state' = S.state /\ timer' = S.timer
  /\ on_time' = S.on_time /\ off_time' = S.off_time
  /\ eta' = S.eta /\ last_checked_time' = S.last_checked_time
  /\ led_on' = S.led_on /\ led_off' = S.led_off /\ power' = S.power
Other(st) == IF st = STATE_ONLINE THEN STATE_OFFLINE ELSE STATE_ONLINE

\* the statement Program.receive begins with
Entry(n) ==
  CASE n \in {"online_changed", "offline_changed"} -> "receive"
    [] n = "reset" -> "clear"
    [] n = "stop" -> "stop_timer"
    [] n \in {"start_on", "start_off"} -> "start_timer"
    [] n = "next" -> "offs"

\* one statement of the handler of event e at clock value t: where it goes
\* on, the fields and locals it leaves, what it emits, the message it shows
Micro(l, S, L, e, t) ==
  LET n == Name(e)
      go(p, S2, L2, out, msg) ==
        [pc |-> p, S |-> S2, L |-> L2, out |-> out, msg |-> msg]
      r == StartTimerResult(S.on_time, S.off_time, S.state)
      st == IF n = "start_on" THEN STATE_ONLINE ELSE STATE_OFFLINE
      value == IF n = "start_on" THEN ON ELSE OFF
      dur == IF L.br = STATE_ONLINE THEN S.on_time ELSE S.off_time
  IN
  CASE l = "receive" ->
         go("idle", IF n = "online_changed" THEN [S EXCEPT !.on_time = Args(e)[1]]
                    ELSE [S EXCEPT !.off_time = Args(e)[1]], L, <<>>, "")
    [] l = "clear" -> go("stop_timer", S, L, <<>>, "")
    \* stop_timer
    [] l = "stop_timer" ->
         go(IF S.state = STATE_STOPPED \/ ~S.timer THEN "set_stopped" ELSE "deinit",
            S, L, <<>>, "")
    [] l = "deinit" -> go("set_stopped", [S EXCEPT !.timer = FALSE], L, <<>>, "")
    \* stop: set_state(STOPPED), set_power(OFF, OFF), eta = 0
    [] l = "set_stopped" ->
         go("led_on", [S EXCEPT !.state = STATE_STOPPED],
            [L EXCEPT !.v = OFF, !.lo = OFF, !.ret = "eta"],
            <<Ev("set_state", <<STATE_STOPPED>>)>>, "")
    [] l = "eta" -> go("idle", [S EXCEPT !.eta = 0], L, <<>>, "")
    \* set_power: the three pins, one after the other
    [] l = "led_on" -> go("led_off", [S EXCEPT !.led_on = L.v], L, <<>>, "")
    [] l = "led_off" -> go("power", [S EXCEPT !.led_off = L.lo], L, <<>>, "")
    [] l = "power" -> go(L.ret, [S EXCEPT !.power = L.v], L, <<>>, "")
    \* start_timer
    [] l = "start_timer" ->
         CASE r = "on_zero" -> go("idle", S, L, <<>>, "ON time is ZERO")
           [] r = "off_zero" -> go("idle", S, L, <<>>, "OFF time is ZERO")
           [] r = "running" -> go("idle", S, L, <<>>, "")
           [] OTHER -> go("init", S, [L EXCEPT !.st = st, !.v = value, !.lo = 1 - value,
                                              !.ret = "idle"], <<>>, "")
    [] l = "init" -> go("rest_rtc", [S EXCEPT !.timer = TRUE], L, <<>>, "")
    \* rest_rtc
    [] l = "rest_rtc" -> go("rest_eta", [S EXCEPT !.last_checked_time = t], L, <<>>, "")
    [] l = "rest_eta" -> go("set_state", [S EXCEPT !.eta = 0], L, <<>>, "")
    [] l = "set_state" ->
         go("led_on", [S EXCEPT !.state = L.st], L, <<Ev("set_state", <<L.st>>)>>, "")
    \* update_handler(force_switch=True)
    [] l = "offs" -> go("branch", S, [L EXCEPT !.offs = t - S.last_checked_time], <<>>, "")
    [] l = "branch" ->
         go(IF S.state = STATE_STOPPED THEN "update_display" ELSE "dur",
            S, [L EXCEPT !.br = S.state], <<>>, "")
    [] l = "dur" ->
         go(IF Expired(L.offs, dur, TRUE) THEN "rest_rtc" ELSE "update_display",
            [S EXCEPT !.eta = dur - L.offs],
            [L EXCEPT !.st = Other(L.br), !.v = PowerOf(Other(L.br)),
                      !.lo = 1 - PowerOf(Other(L.br)), !.ret = "update_display"],
            <<>>, "")
    [] l = "update_display" -> go("idle", S, L, <<Ev("update_eta", <<S.eta>>)>>, "")

\* the requests whose handling the callback may interrupt
RaceCommands == {Ev(n, <<>>) : n \in {"stop", "start_on", "start_off", "reset", "next"}}

\* process_events enters Program.receive(e)
RaceArrive(e) ==
  /\ hpc = "idle" /\ pc = "update" /\ Drained
  /\ hpc' = Entry(Name(e))
  /\ loc' = NoLoc
  /\ pre' = [S |-> Prog, e |-> e, cb |-> FALSE]
  /\ was_reset' = (Name(e) = "reset")
  /\ start_ret' = "none"
  /\ UNCHANGED <<progVars, now, events, busVars, dispVars, store, uiVars, restarted,
                 inputs, durVars, fired, due, idleVars>>

\* the next statement of the open handler
RaceStep ==
  /\ hpc # "idle"
  /\ LET m == Micro(hpc, Prog, loc, pre.e, now) IN
       /\ Assign(m.S)
       /\ hpc' = m.pc
       /\ loc' = IF m.pc = "idle" THEN NoLoc ELSE m.L
       /\ pre' = IF m.pc = "idle" THEN NoPre ELSE pre
       /\ IF m.msg # ""
          THEN ShowMessage(m.msg) /\ UNCHANGED events
          ELSE /\ events' = [events EXCEPT ![CORE] = @ \o m.out]
               /\ UNCHANGED dispVars
  /\ store' = IF hpc = "clear" THEN StoreClear ELSE store
  /\ start_ret' = IF hpc = "start_timer"
                  THEN StartTimerResult(on_time, off_time, state) ELSE "none"
  /\ UNCHANGED <<now, busVars, uiVars, restarted, inputs, was_reset, durVars, fired, due, idleVars>>

\* a second passes between two handlers and the periodic timer fires: its
\* callback is due
RaceSecond ==
  /\ hpc = "idle" /\ Drained
  /\ timer /\ ~due
  /\ now < MaxElapsed
  /\ now' = now + 1
  /\ due' = TRUE
  /\ start_ret' = "none"
  /\ UNCHANGED <<progVars, events, busVars, dispVars, store, uiVars, restarted, inputs,
                 was_reset, durVars, fired, hpc, loc, pre, idleVars>>

\* the due callback runs, between two handlers or between two statements of
\* the open one
RaceCallback ==
  /\ due
  /\ due' = FALSE
  /\ UpdateHandler(now, FALSE)
  /\ pre' = IF hpc = "idle" THEN pre ELSE [pre EXCEPT !.cb = TRUE]
  /\ start_ret' = "none"
  /\ UNCHANGED <<now, busVars, dispVars, store, uiVars, restarted, inputs, was_reset,
                 durVars, fired, hpc, loc, idleVars>>

RaceConsume == hpc = "idle" /\ Consume
RaceHide == hpc = "idle" /\ HideMessageP
NextRace ==
  \/ \E e \in DurationEvents \cup RaceCommands : RaceArrive(e)
  \/ RaceStep \/ RaceSecond \/ RaceCallback \/ RaceConsume \/ RaceHide
SpecRace == InitProgram /\ [][NextRace]_vars

\* update_handler and Program.receive run without interruption, as values
UpdateF(S, t, force_switch) ==
  LET offs == t - S.last_checked_time
      dur == IF S.state = STATE_ONLINE THEN S.on_time ELSE S.off_time
      next == Other(S.state)
  IN IF S.state # STATE_STOPPED /\ Expired(offs, dur, force_switch)
     THEN [S EXCEPT !.last_checked_time = t, !.eta = 0, !.state = next,
                    !.led_on = PowerOf(next), !.led_off = 1 - PowerOf(next),
                    !.power = PowerOf(next)]
     ELSE [S EXCEPT !.eta = IF S.state = STATE_STOPPED THEN S.eta ELSE dur - offs]
StopF(S) ==
  [S EXCEPT !.timer = StopTimerValue(S.state, S.timer), !.state = STATE_STOPPED,
            !.led_on = OFF, !.led_off = OFF, !.power = OFF, !.eta = 0]
StartF(S, st, value, t) ==
  IF StartTimerResult(S.on_time, S.off_time, S.state) = "ok"
  THEN [S EXCEPT !.timer = TRUE, !.last_checked_time = t, !.eta = 0, !.state = st,
                 !.led_on = value, !.led_off = 1 - value, !.power = value]
  ELSE S
ReceiveF(S, e, t) ==
  CASE Name(e) = "online_changed" -> [S EXCEPT !.on_time = Args(e)[1]]
    [] Name(e) = "offline_changed" -> [S EXCEPT !.off_time = Args(e)[1]]
    [] Name(e) \in {"stop", "reset"} -> StopF(S)
    [] Name(e) = "start_on" -> StartF(S, STATE_ONLINE, ON, t)
    [] Name(e) = "start_off" -> StartF(S, STATE_OFFLINE, OFF, t)
    [] Name(e) = "next" -> UpdateF(S, t, TRUE)
    [] OTHER -> S

\* the scheduler with its scheduling: the periodic timer keeps firing while
\* it is armed, however often events arrive (strong fairness of the tick),
\* and main's loop keeps taking and delivering the queued events;
\* events reach Program.receive in the first MaxElapsed seconds of the clock,
\* between two ticks, and the phase then runs on
ArriveEarly(e) ==
  /\ now <= MaxElapsed
  /\ Arrive(e)
TickRun == pc = "update" /\ TickP
NextRun ==
  \/ \E e \in DurationEvents \cup CommandEvents : ArriveEarly(e)
  \/ HandleEv \/ Consume \/ TickRun \/ HideMessageP \/ MachineReset
SpecRun ==
  /\ InitProgram /\ [][NextRun]_vars
  /\ SF_vars(TickRun) /\ WF_vars(HandleEv) /\ WF_vars(Consume)
  /\ WF_vars(HideMessageP) /\ WF_vars(MachineReset)

\* ------------------------------------------------------ menu, controllers
max_index == Len(MenuItems) - 1

\* Menu.on_left / Menu.on_right in MODE_SELECT: step, wrap, skip what is not
\* selectable
NavLeftNoSkip(i) == IF i - 1 < 0 THEN max_index ELSE i - 1
RECURSIVE NavLeft(_)
NavLeft(i) ==
  LET j == IF i - 1 < 0 THEN max_index ELSE i - 1
  IN IF Selectable(MenuItems[j + 1]) THEN j ELSE NavLeft(j)
RECURSIVE NavRight(_)
NavRight(i) ==
  LET j == IF i + 1 > max_index THEN 0 ELSE i + 1
  IN IF Selectable(MenuItems[j + 1]) THEN j ELSE NavRight(j)

\* ControllerTime.on_left / on_right
TimeLeftLate(t) == IF t + 1 > TimeLimit THEN 0 ELSE t + 1
TimeRightWraps(t) == IF t = 0 THEN TimeLimit - 1 ELSE t - 1
TimeLeft(t) == IF t + 1 >= TimeLimit THEN 0 ELSE t + 1
TimeRight(t) == Max(0, t - 1)

\* ControllerActions.on_left / on_right
ActLeft(i, m) == IF i - 1 < 0 THEN m ELSE i - 1
ActRightNoWrap(i, m) == i + 1
ActRight(i, m) == IF i + 1 > m THEN 0 ELSE i + 1
\* ControllerActions.current_action
CurrentAction(m, i) == actions(m)[i + 1]

KeyEvent == Ev("on_key_event", <<>>)

\* Menu.clear_left, clear_right: the column after it
clear_left_keeps(col) == col
clear_left(col) == [i \in Rows |-> " "]
clear_right(col) == [i \in Rows |-> " "]
\* Menu.update_indicator on the columns scr = <<column 0, column 19>>
update_indicator(mode, idx, scr) ==
  IF mode = MODE_SELECT
  THEN <<[clear_left(scr[1]) EXCEPT ![idx] = ">"], scr[2]>>
  ELSE <<scr[1], [clear_right(scr[2]) EXCEPT ![idx] = "<"]>>
\* the columns after Menu.change_focus has set the mode to mode
change_focus_lcd(mode, idx, scr) ==
  IF mode = MODE_EDIT
  THEN update_indicator(mode, idx, <<clear_left(scr[1]), scr[2]>>)
  ELSE update_indicator(mode, idx, <<scr[1], clear_right(scr[2])>>)
\* the line of a controller
Line(o) == CHOOSE i \in Rows : MenuItems[i + 1] = o

\* Menu.change_focus: the mode after a press
change_focus_stays(mode) == MODE_EDIT
change_focus(mode) == IF mode = MODE_SELECT THEN MODE_EDIT ELSE MODE_SELECT

\* Events.update: the encoder moved (enc = 1: value > last_enc_value, on_left;
\* enc = -1: on_right; 0: no move), then the button level btn_value
PollInput ==
  /\ pc = "update"
  /\ \E enc \in {-1, 0, 1}, btn_value \in {0, 1} :
       LET focus == MenuItems[menu_index + 1]
           edit == menu_mode = MODE_EDIT
           idx1 == IF enc = 0 \/ edit THEN menu_index
                   ELSE IF enc = 1 THEN NavLeft(menu_index) ELSE NavRight(menu_index)
           time1 == IF enc # 0 /\ edit /\ focus \in TimeCtrls
                    THEN [time EXCEPT ![focus] = IF enc = 1 THEN TimeLeft(@) ELSE TimeRight(@)]
                    ELSE time
           act1 == IF enc # 0 /\ edit /\ focus = ACTIONS_C
                   THEN (IF enc = 1 THEN ActLeft(act_index, act_max)
                         ELSE ActRight(act_index, act_max))
                   ELSE act_index
           q1 == IF enc # 0 THEN Emit(events, EVENTS, KeyEvent) ELSE events
           press == last_btn_value # btn_value /\ btn_value = 0
           focus1 == MenuItems[idx1 + 1]
           exit == press /\ edit
           action == CurrentAction(act_mode, act1)
           q2 == IF exit /\ focus1 \in TimeCtrls
                 THEN Emit(q1, focus1, Ev(EventName(focus1), <<time1[focus1] * SecPerMin>>))
                 ELSE IF exit /\ focus1 = ACTIONS_C /\ action # null_action
                 THEN Emit(q1, ACTIONS_C, Ev(ActionEvent(action), <<>>))
                 ELSE q1
           q3 == IF press THEN Emit(q2, EVENTS, KeyEvent) ELSE q2
           scr1 == IF enc # 0 /\ ~edit
                   THEN update_indicator(menu_mode, idx1, <<col0, col19>>)
                   ELSE <<col0, col19>>
           mode1 == IF press THEN change_focus(menu_mode) ELSE menu_mode
           \* on_press: change_focus, then update_indicator once more
           scr2 == IF press
                   THEN update_indicator(mode1, idx1, change_focus_lcd(mode1, idx1, scr1))
                   ELSE scr1
           lines == (IF enc # 0 /\ edit THEN {menu_index} ELSE {})
                    \cup (IF exit /\ focus1 = ACTIONS_C THEN {Line(focus1)} ELSE {})
       IN
       /\ col0' = print_line(render_enabled, col0, scr2[1])
       /\ col19' = print_line(render_enabled, col19, scr2[2])
       /\ Render(lines)
       /\ (enc = 1 /\ edit /\ focus \in TimeCtrls) => time[focus] < MaxMinutes
       /\ menu_index' = idx1
       /\ time' = time1
       /\ act_index' = IF exit /\ focus1 = ACTIONS_C THEN 0 ELSE act1
       /\ menu_mode' = mode1
       /\ store' = IF exit /\ focus1 \in TimeCtrls
                   THEN StoreSet(store, EventName(focus1), time1[focus1]) ELSE store
       /\ events' = q3
       /\ last_btn_value' = btn_value
       /\ restarted' = (restarted /\ enc = 0 /\ ~press)
       /\ (enc # 0 \/ press) => inputs < MaxInputs
       /\ inputs' = IF enc # 0 \/ press THEN inputs + 1 ELSE inputs
       /\ was_reset' = (was_reset /\ \E o \in Objects : events[o] # <<>>)
       /\ UNCHANGED durVars /\ fired' = FALSE /\ UNCHANGED <<raceVars, idleVars>>
  /\ pc' = "process" /\ item' = 1
  /\ start_ret' = "none"
  /\ recv' = <<>>
  /\ UNCHANGED <<progVars, now, ev, c, flush, msgVars, act_max, act_mode,
                 title_eta, title_mode>>

\* ------------------------------------- one duration controller on its own
\* the values the ON controller is constructed from, the values it commits
\* and the caller defaults of a construction
DurationStarts == {0, 2999, 5999}
Defaults == {NoneV, 5}

\* what no call of the controller touches
DurationFrame ==
  /\ start_ret' = "none"
  /\ UNCHANGED <<progVars, now, busVars, dispVars, act_index, act_max, act_mode,
                 title_eta, title_mode, menu_mode, menu_index, last_btn_value,
                 restarted, inputs, was_reset, fired, raceVars, idleVars>>

\* on_left, on_right, receive('reset'), on_exit and the construction after a
\* restart, of ControllerOnline; a queued event is taken before the next emit
OnLeft ==
  /\ pc = "update" /\ lefts < TimeLimit
  /\ time' = [time EXCEPT ![ONLINE_C] = TimeLeft(@)]
  /\ op' = "on_left"
  /\ IF d0 = NoneV THEN UNCHANGED <<lefts, wraps>>
     ELSE /\ lefts' = lefts + 1
          /\ wraps' = IF time'[ONLINE_C] < time[ONLINE_C] THEN wraps + 1 ELSE wraps
  /\ UNCHANGED <<d0, init_time, events, store>>
  /\ DurationFrame
OnRight ==
  /\ pc = "update"
  /\ time' = [time EXCEPT ![ONLINE_C] = TimeRight(@)]
  /\ op' = "on_right"
  /\ d0' = NoneV /\ lefts' = 0 /\ wraps' = 0
  /\ UNCHANGED <<init_time, events, store>>
  /\ DurationFrame
\* 'reset' as Program (Store.clear) and then the controller receive it
OnReset ==
  /\ pc = "update" /\ events[ONLINE_C] = <<>>
  /\ store' = StoreClear
  /\ time' = [time EXCEPT ![ONLINE_C] = 0]
  /\ events' = Emit(events, ONLINE_C, Ev(EventName(ONLINE_C), <<0>>))
  /\ op' = "reset"
  /\ d0' = NoneV /\ lefts' = 0 /\ wraps' = 0
  /\ UNCHANGED init_time
  /\ DurationFrame
OnExit ==
  /\ pc = "update" /\ events[ONLINE_C] = <<>>
  /\ time[ONLINE_C] \in DurationStarts
  /\ store' = StoreSet(store, EventName(ONLINE_C), time[ONLINE_C])
  /\ events' = Emit(events, ONLINE_C,
                    Ev(EventName(ONLINE_C), <<time[ONLINE_C] * SecPerMin>>))
  /\ op' = "on_exit"
  /\ d0' = NoneV /\ lefts' = 0 /\ wraps' = 0
  /\ UNCHANGED <<time, init_time>>
  /\ DurationFrame
\* ControllerTime.__init__(init_time): restore_value, then on_exit
Construct(default) ==
  /\ pc = "update" /\ events[ONLINE_C] = <<>>
  /\ LET t == restore_value(store, EventName(ONLINE_C), default) IN
       /\ time' = [time EXCEPT ![ONLINE_C] = t]
       /\ store' = StoreSet(store, EventName(ONLINE_C), t)
       /\ events' = Emit(events, ONLINE_C, Ev(EventName(ONLINE_C), <<t * SecPerMin>>))
       /\ d0' = t
  /\ op' = "new" /\ init_time' = default
  /\ lefts' = 0 /\ wraps' = 0
  /\ DurationFrame
\* the bus takes the controller's event
TakeChanged ==
  /\ pc = "update" /\ events[ONLINE_C] # <<>>
  /\ events' = [events EXCEPT ![ONLINE_C] = Front(@)]
  /\ op' = "none"
  /\ UNCHANGED <<time, store, d0, lefts, wraps, init_time>>
  /\ DurationFrame
NextDuration ==
  \/ OnLeft \/ OnRight \/ OnReset \/ OnExit \/ TakeChanged
  \/ \E default \in Defaults : Construct(default)
\* the firmware has started with v on the flash for the ON controller
InitDuration ==
  /\ state = STATE_STOPPED /\ timer = FALSE /\ on_time = 0 /\ off_time = 0
  /\ eta = 0 /\ last_checked_time = 0 /\ led_on = 0 /\ led_off = 0 /\ power = 0
  /\ now = 0
  /\ \E v \in DurationStarts :
       LET s == [k \in Keys |-> IF k = EventName(ONLINE_C) THEN v ELSE 0] IN
       /\ time = InitTime(s)
       /\ store = InitStore(s)
       /\ events = [InitEvents(InitTime(s)) EXCEPT ![ONLINE_C] = <<>>]
       /\ d0 = v
  /\ pc = "update" /\ item = 1 /\ ev = NoEv /\ c = 1 /\ flush = FALSE /\ recv = <<>>
  /\ render_enabled = TRUE /\ lcd_timer = FALSE /\ lcd_message = ""
  /\ col0 = [Blank EXCEPT ![FirstSelectable] = ">"] /\ col19 = Blank /\ drawn = Rows
  /\ act_index = 0 /\ act_max = 0 /\ act_mode = MODE_INACTIVE
  /\ title_eta = 0 /\ title_mode = STATE_STOPPED
  /\ menu_mode = MODE_SELECT /\ menu_index = FirstSelectable
  /\ last_btn_value = 1
  /\ restarted = FALSE
  /\ start_ret = "none" /\ inputs = 0
  /\ was_reset = FALSE
  /\ lefts = 0 /\ wraps = 0 /\ op = "new" /\ init_time = NoneV
  /\ fired = FALSE
  /\ RaceIdle
  /\ IdleInit(0)
SpecDuration == InitDuration /\ [][NextDuration]_vars

\* --------------------------------------------------------------- receive
\* ControllerTitle.receive
TitleReceive(e) ==
  /\ title_eta' = IF Name(e) = "update_eta" THEN Args(e)[1] ELSE title_eta
  /\ title_mode' = IF Name(e) = "set_state" THEN Args(e)[1] ELSE title_mode
  /\ Render(IF Name(e) \in {"update_eta", "set_state"} THEN {Line(TITLE)} ELSE {})
  /\ UNCHANGED <<progVars, events, msgVars, col0, col19, store, time, act_index, act_max, act_mode,
                 menu_mode, menu_index, last_btn_value, restarted>>

\* ControllerTime.receive
TimeReceiveKeeps(o, e) ==
  UNCHANGED <<time, events, progVars, dispVars, store, act_index, act_max, act_mode,
              title_eta, title_mode, menu_mode, menu_index, last_btn_value, restarted>>
TimeReceive(o, e) ==
  /\ IF Name(e) = "reset"
     THEN /\ time' = [time EXCEPT ![o] = 0]
          /\ events' = Emit(events, o, Ev(EventName(o), <<0>>))
          /\ Render({Line(o)})
     ELSE UNCHANGED <<time, events, drawn>>
  /\ UNCHANGED <<progVars, msgVars, col0, col19, store, act_index, act_max, act_mode, title_eta,
                 title_mode, menu_mode, menu_index, last_btn_value, restarted>>

\* ControllerActions.receive and set_mode
ActionsReceive(e) ==
  /\ IF Name(e) = "set_state"
     THEN LET m == IF Args(e)[1] = STATE_STOPPED THEN MODE_INACTIVE ELSE MODE_ACTIVE IN
          /\ act_mode' = m
          /\ act_max' = Len(actions(m)) - 1
          /\ Render({Line(ACTIONS_C)})
     ELSE UNCHANGED <<act_mode, act_max, drawn>>
  /\ UNCHANGED <<progVars, events, msgVars, col0, col19, store, time, act_index, title_eta,
                 title_mode, menu_mode, menu_index, last_btn_value, restarted>>

\* Menu.receive: render_menu
MenuReceive(e) ==
  /\ IF Name(e) = "rerender"
     THEN LET scr == update_indicator(menu_mode, menu_index, <<col0, col19>>) IN
          /\ Render(Rows)
          /\ col0' = print_line(render_enabled, col0, scr[1])
          /\ col19' = print_line(render_enabled, col19, scr[2])
     ELSE UNCHANGED <<col0, col19, drawn>>
  /\ UNCHANGED <<progVars, events, msgVars, store, uiVars, restarted>>

\* receive of Display (the backlight), IdleTimer and Events where the clock
\* stays below the idle timeout and nothing of theirs changes; IdleRecv
\* follows them
OtherReceive(e) ==
  UNCHANGED <<progVars, events, dispVars, store, uiVars, restarted>>

Receive(o, e) ==
  CASE o = CORE -> /\ ProgramReceive(e)
                   /\ UNCHANGED uiVars
    [] o = TITLE -> TitleReceive(e) /\ start_ret' = "none" /\ UNCHANGED inputs
    [] o \in TimeCtrls -> TimeReceive(o, e) /\ start_ret' = "none" /\ UNCHANGED inputs
    [] o = ACTIONS_C -> ActionsReceive(e) /\ start_ret' = "none" /\ UNCHANGED inputs
    [] o = MENU -> MenuReceive(e) /\ start_ret' = "none" /\ UNCHANGED inputs
    [] OTHER -> OtherReceive(e) /\ start_ret' = "none" /\ UNCHANGED inputs

\* -------------------------------------------------- RObject.process_events
\* `for c in objects`: the order in which the objects receive an event
DeliveryOrderReversed == [i \in 1..NObj |-> Registered[NObj + 1 - i]]
DeliveryOrder == Registered

\* e.pop(): the entry taken from a queue, and what stays
PopEvent(q) == Last(q)
PopRest(q) == Front(q)

\* the queues the pass has still to drain
Pending == {o \in Objects : o >= item /\ events[o] # <<>>}
NextItem == CHOOSE o \in Pending : \A x \in Pending : o <= x

\* for item in objects: ... while e: ev = e.pop()
Pop ==
  /\ pc = "process" /\ ev = NoEv
  /\ Pending # {}
  /\ item' = NextItem
  /\ ev' = PopEvent(events[NextItem])
  /\ events' = [events EXCEPT ![NextItem] = PopRest(@)]
  /\ c' = 1
  /\ recv' = <<>>
  /\ start_ret' = "none" /\ UNCHANGED <<inputs, was_reset, durVars, fired, raceVars, idleVars>>
  /\ UNCHANGED <<progVars, now, pc, flush, dispVars, store, uiVars, restarted>>

\* the events whose receive does something in object o; any other receive
\* returns at once
Handles(o, n) ==
  CASE o = CORE -> n \in {"online_changed", "offline_changed", "stop", "start_on",
                          "start_off", "restart", "reset", "reboot", "next"}
    [] o = TITLE -> n \in {"update_eta", "set_state"}
    [] o \in TimeCtrls -> n = "reset"
    [] o = ACTIONS_C -> n = "set_state"
    [] o = MENU -> n = "rerender"
    [] OTHER -> FALSE

\* the position, after k, of the next object of the loop that handles n
NextHandler(k, n) ==
  LET H == {x \in (k + 1)..NObj : Handles(DeliveryOrder[x], n)}
  IN IF H = {} THEN NObj + 1 ELSE CHOOSE x \in H : \A y \in H : x <= y

\* for c in objects: c.receive(ev[0], *ev[1]): one step runs the receive of
\* object c and of the objects after it that ignore the event; after the last
\* object the loop is back at `while e`. Program's 'reboot' goes on to a nested
\* process_events, from which the interrupted pass never resumes
Deliver ==
  /\ pc = "process" /\ ev # NoEv /\ c <= NObj
  /\ Receive(DeliveryOrder[c], ev)
  /\ IF DeliveryOrder[c] = CORE /\ Name(ev) = "reboot"
     THEN /\ flush' = TRUE
          /\ item' = 1
          /\ ev' = NoEv
          /\ c' = 1
          /\ recv' = Append(recv, DeliveryOrder[c])
     ELSE LET k == NextHandler(c, Name(ev)) IN
          /\ c' = k
          /\ recv' = recv \o SubSeq(DeliveryOrder, c, k - 1)
          /\ ev' = IF k > NObj THEN NoEv ELSE ev
          /\ UNCHANGED <<flush, item>>
  /\ was_reset' = (was_reset \/ (DeliveryOrder[c] = CORE /\ Name(ev) = "reset"))
  /\ fired' = (fired /\ ~(DeliveryOrder[c] = CORE /\ Name(ev) = "reboot")) /\ UNCHANGED <<raceVars, idleVars>>
  /\ UNCHANGED <<now, pc, inputs, durVars>>

\* process_events returns: to main's loop, or to reset() in Program.receive
EndPass ==
  /\ pc = "process" /\ ev = NoEv
  /\ Pending = {}
  /\ pc' = IF flush THEN "reset" ELSE "update"
  /\ item' = 1
  /\ start_ret' = "none" /\ UNCHANGED <<inputs, was_reset, durVars, fired, raceVars, idleVars>>
  /\ UNCHANGED <<progVars, now, events, ev, c, flush, recv, dispVars, store, uiVars,
                 restarted>>

\* a 'restart' request is put on the bus
EmitRestart ==
  /\ pc = "update"
  /\ state = STATE_ONLINE
  /\ ~restarted
  /\ \A o \in Objects : events[o] = <<>>
  /\ events' = Emit(events, ACTIONS_C, Ev("restart", <<>>))
  /\ start_ret' = "none" /\ UNCHANGED <<inputs, was_reset, durVars, fired, raceVars, idleVars>>
  /\ UNCHANGED <<progVars, now, busVars, dispVars, store, uiVars, restarted>>

Tick == TickAt(MaxTicks)

Next ==
  \/ PollInput \/ Pop \/ Deliver \/ EndPass \/ MachineReset
  \/ Tick \/ HideMessage \/ EmitRestart
Spec == Init /\ [][Next]_vars

\* ------------------------------ the bus with the controllers' events given
\* what Events.update leaves when the menu has just left a controller:
\* ControllerTime.on_exit with the value m, ControllerActions.on_exit with the
\* command a of its current list, or nothing
Commit(o, m) ==
  /\ pc = "update"
  /\ time' = [time EXCEPT ![o] = m]
  /\ store' = StoreSet(store, EventName(o), m)
  /\ events' = Emit(events, o, Ev(EventName(o), <<m * SecPerMin>>))
  /\ UNCHANGED <<act_index, drawn>>
Command(i) ==
  /\ pc = "update"
  /\ i <= act_max /\ CurrentAction(act_mode, i) # null_action
  /\ events' = Emit(events, ACTIONS_C, Ev(ActionEvent(CurrentAction(act_mode, i)), <<>>))
  /\ act_index' = 0
  /\ Render({Line(ACTIONS_C)})
  /\ UNCHANGED <<time, store>>
Leave(bound) ==
  /\ inputs < bound
  /\ \/ \E o \in TimeCtrls, m \in 0..MaxMinutes : Commit(o, m)
     \/ \E i \in 0..4 : Command(i)
  /\ inputs' = inputs + 1
  /\ restarted' = FALSE
\* Events.update finds no input
NoInput ==
  /\ pc = "update"
  /\ UNCHANGED <<events, time, store, act_index, inputs, restarted, drawn>>
\* main's loop: events.update(), then process_events is entered
Update(bound) ==
  /\ Leave(bound) \/ NoInput
  /\ pc' = "process" /\ item' = 1
  /\ start_ret' = "none" /\ fired' = FALSE /\ UNCHANGED <<raceVars, idleVars>>
  /\ was_reset' = (was_reset /\ \E o \in Objects : events[o] # <<>>)
  /\ recv' = <<>>
  /\ UNCHANGED <<progVars, now, ev, c, flush, msgVars, col0, col19, act_max, act_mode,
                 title_eta, title_mode, menu_mode, menu_index, last_btn_value, durVars>>
TickB == TickAt(MaxElapsed)
UpdateB == Update(MaxRequests)
NextBus ==
  \/ UpdateB \/ Pop \/ Deliver \/ EndPass \/ MachineReset \/ TickB \/ HideMessage
SpecBus == Init /\ [][NextBus]_vars

\* the bus with its scheduling: main's `while True` keeps polling and
\* passing, an armed one-shot timer fires, reset() restarts the firmware
UpdateL == Update(MaxMessages)
TickL == TickAt(MaxTicks)
NextLive ==
  \/ UpdateL \/ Pop \/ Deliver \/ EndPass \/ MachineReset \/ TickL \/ HideMessage
SpecLive ==
  /\ Init /\ [][NextLive]_vars
  /\ WF_vars(UpdateL) /\ WF_vars(Pop) /\ WF_vars(Deliver) /\ WF_vars(EndPass)
  /\ WF_vars(HideMessage) /\ WF_vars(MachineReset)

\* ------------------------------------------ the idle timer on the bus
\* main's loop with Display, IdleTimer and Events taking their events. An
\* input that reaches the Menu leaves the Action controller with one of its
\* commands or stays inside the menu; the clock moves in steps of
\* TIMEOUT_CHECK, and the scheduler changes by the commands alone (its own
\* tick adds update_eta events only).
\* Display.receive
DisplayReceive(e) ==
  /\ backlight' = CASE Name(e) = "idle_off" -> TRUE
                    [] Name(e) = "idle_on" -> FALSE
                    [] OTHER -> backlight
  /\ UNCHANGED <<events, is_idle, last_active, idle_timer, is_idle_mode>>

\* IdleTimer.receive
IdleTimerStop(tm, n) == IF n = "stop" THEN FALSE ELSE tm
IdleTimerReceive(e) ==
  /\ last_active' = IF Name(e) = "on_key_event" THEN now ELSE last_active
  /\ IF Name(e) = "on_key_event" /\ is_idle
     THEN /\ events' = Emit(events, IDLE, Ev("idle_off", <<>>))
          /\ is_idle' = FALSE
     ELSE UNCHANGED <<events, is_idle>>
  /\ idle_timer' = IdleTimerStop(idle_timer, Name(e))
  /\ UNCHANGED <<backlight, is_idle_mode>>

\* Events.receive
EventsReceive(e) ==
  /\ is_idle_mode' = (is_idle_mode \/ Name(e) = "idle_on")
  /\ UNCHANGED <<events, is_idle, last_active, idle_timer, backlight>>

IdleRecv(o, e) ==
  IF o \in {LCD, IDLE, EVENTS}
  THEN /\ CASE o = LCD -> DisplayReceive(e)
            [] o = IDLE -> IdleTimerReceive(e)
            [] o = EVENTS -> EventsReceive(e)
       /\ start_ret' = "none"
       /\ UNCHANGED <<progVars, dispVars, store, uiVars, restarted, inputs>>
  ELSE /\ Receive(o, e)
       /\ UNCHANGED <<is_idle, last_active, idle_timer, is_idle_mode, backlight>>

IdleHandles(o, n) ==
  CASE o = LCD -> n \in {"idle_on", "idle_off"}
    [] o = IDLE -> n \in {"on_key_event", "stop"}
    [] o = EVENTS -> n = "idle_on"
    [] OTHER -> Handles(o, n)
IdleNextHandler(k, n) ==
  LET H == {x \in (k + 1)..NObj : IdleHandles(DeliveryOrder[x], n)}
  IN IF H = {} THEN NObj + 1 ELSE CHOOSE x \in H : \A y \in H : x <= y

\* for c in objects: c.receive(ev[0], *ev[1])
IdleDeliver ==
  /\ pc = "process" /\ ev # NoEv /\ c <= NObj
  /\ IdleRecv(DeliveryOrder[c], ev)
  /\ IF DeliveryOrder[c] = CORE /\ Name(ev) = "reboot"
     THEN /\ flush' = TRUE
          /\ item' = 1
          /\ ev' = NoEv
          /\ c' = 1
          /\ recv' = Append(recv, DeliveryOrder[c])
     ELSE LET k == IdleNextHandler(c, Name(ev)) IN
          /\ c' = k
          /\ recv' = recv \o SubSeq(DeliveryOrder, c, k - 1)
          /\ ev' = IF k > NObj THEN NoEv ELSE ev
          /\ UNCHANGED <<flush, item>>
  /\ was_reset' = (was_reset \/ (DeliveryOrder[c] = CORE /\ Name(ev) = "reset"))
  /\ fired' = (fired /\ ~(DeliveryOrder[c] = CORE /\ Name(ev) = "reboot"))
  /\ UNCHANGED <<now, pc, inputs, durVars, raceVars, idle_due, key>>

\* Events.update: on_left / on_right / on_press pass the input on unless
\* _is_idle_mode, then on_any_event
IdleUpdate ==
  /\ pc = "update"
  /\ \/ /\ key' = "none"
        /\ UNCHANGED <<events, act_index, drawn, inputs, is_idle_mode, restarted>>
     \/ /\ inputs < MaxKeys
        /\ inputs' = inputs + 1
        /\ restarted' = FALSE
        /\ is_idle_mode' = FALSE
        /\ IF is_idle_mode
           THEN /\ key' = "withheld"
                /\ events' = Emit(events, EVENTS, KeyEvent)
                /\ UNCHANGED <<act_index, drawn>>
           ELSE /\ key' = "menu"
                /\ \/ /\ events' = Emit(events, EVENTS, KeyEvent)
                      /\ UNCHANGED <<act_index, drawn>>
                   \/ \E i \in 0..4 :
                        /\ i <= act_max /\ CurrentAction(act_mode, i) # null_action
                        /\ events' = Emit(Emit(events, ACTIONS_C,
                                               Ev(ActionEvent(CurrentAction(act_mode, i)), <<>>)),
                                          EVENTS, KeyEvent)
                        /\ act_index' = 0
                        /\ Render({Line(ACTIONS_C)})
  /\ pc' = "process" /\ item' = 1
  /\ start_ret' = "none" /\ fired' = FALSE
  /\ was_reset' = (was_reset /\ \E o \in Objects : events[o] # <<>>)
  /\ recv' = <<>>
  /\ UNCHANGED <<progVars, now, ev, c, flush, msgVars, col0, col19, store, time, act_max,
                 act_mode, title_eta, title_mode, menu_mode, menu_index, last_btn_value,
                 durVars, raceVars, is_idle, last_active, idle_timer, idle_due, backlight>>

\* TIMEOUT_CHECK seconds pass: main's loop, which turns every 50 ms, has
\* emptied the queues meanwhile; the idle timer, if armed, fires and its
\* callback is due
IdleSeconds ==
  /\ pc = "update" /\ \A o \in Objects : events[o] = <<>>
  /\ now < MaxQuiet /\ ~idle_due
  /\ now' = now + TIMEOUT_CHECK
  /\ idle_due' = idle_timer
  /\ start_ret' = "none"
  /\ UNCHANGED <<progVars, events, busVars, dispVars, store, uiVars, restarted, inputs,
                 was_reset, durVars, fired, raceVars, is_idle, last_active, idle_timer,
                 is_idle_mode, backlight, key>>

\* IdleTimer.on_idle_timeout, the callback: between two statements of main,
\* wherever main is
IdleCallback ==
  /\ idle_due
  /\ pc # "reset"
  /\ idle_due' = FALSE
  /\ IF ~is_idle /\ now - last_active > IDLE_TIMEOUT
     THEN /\ events' = Emit(events, IDLE, Ev("idle_on", <<>>))
          /\ is_idle' = TRUE
     ELSE UNCHANGED <<events, is_idle>>
  /\ start_ret' = "none"
  /\ fired' = (fired \/ pc = "process")
  /\ UNCHANGED <<progVars, now, busVars, dispVars, store, uiVars, restarted, inputs,
                 was_reset, durVars, raceVars, last_active, idle_timer, is_idle_mode,
                 backlight, key>>

NextIdle ==
  \/ IdleUpdate \/ Pop \/ IdleDeliver \/ EndPass \/ IdleSeconds \/ IdleCallback
  \/ HideMessage \/ MachineReset
SpecIdle == Init /\ [][NextIdle]_vars
\* with its scheduling: main's loop keeps polling and passing, time passes
\* however busy the loop is, a due callback runs
SpecIdleLive ==
  /\ SpecIdle
  /\ WF_vars(IdleUpdate) /\ WF_vars(Pop) /\ WF_vars(IdleDeliver) /\ WF_vars(EndPass)
  /\ SF_vars(IdleSeconds) /\ WF_vars(IdleCallback)
  /\ WF_vars(HideMessage) /\ WF_vars(MachineReset)

\* ------------------------------------------------------------ the claims
\* C1: between event handlers, phase STOPPED implies the relay and both LEDs
\* are off, phase ONLINE implies the relay is on and phase OFFLINE implies the
\* relay is off.
C1_OutputsFollowPhase ==
  /\ state = STATE_STOPPED => (power = OFF /\ led_on = OFF /\ led_off = OFF)
  /\ state = STATE_ONLINE => power = ON
  /\ state = STATE_OFFLINE => power = OFF
\* the ON phase ran out at a tick and the relay went off
C1_Witness ==
  /\ state = STATE_OFFLINE /\ power = OFF /\ led_off = ON
  /\ last_checked_time >= SecPerMin /\ now = last_checked_time

\* C2: after every completed handler of the scheduler the periodic timer
\* runs exactly when the phase is ONLINE or OFFLINE.
C2_TimerIffRunning == timer <=> state # STATE_STOPPED
\* stopped after the timer had ticked
C2_Witness == state = STATE_STOPPED /\ ~timer /\ now > 0 /\ pc = "update"

\* C3: handling start_on or start_off while the ON or the OFF duration is 0
\* leaves the phase, the timer, the relay and the LEDs as they were (STOPPED
\* stays STOPPED), asks the Display for a transient message and emits nothing.
C3_ZeroDurationStart ==
  [][start_ret' \in {"on_zero", "off_zero"} =>
       /\ on_time = 0 \/ off_time = 0
       /\ UNCHANGED <<progVars, events>>
       /\ lcd_message' = (IF on_time = 0 THEN "ON time is ZERO" ELSE "OFF time is ZERO")
       /\ lcd_timer' /\ ~render_enabled']_vars
\* every start with a zero duration is refused
C3_ZeroDurationRefused ==
  [][(start_ret' # "none" /\ (on_time = 0 \/ off_time = 0)) =>
       start_ret' \in {"on_zero", "off_zero"}]_vars
C3_ZeroStart == C3_ZeroDurationStart /\ C3_ZeroDurationRefused
\* a start was refused for a zero OFF duration while STOPPED
C3_Witness ==
  /\ start_ret = "off_zero" /\ on_time > 0 /\ off_time = 0
  /\ state = STATE_STOPPED /\ ~timer /\ lcd_message = "OFF time is ZERO"

\* C4: handling start_on or start_off while ONLINE or OFFLINE with both
\* durations non-zero changes nothing of the scheduler (phase, origin, timer,
\* eta, relay, LEDs) and emits no event.
C4_DoubleStartNoOp ==
  [][(start_ret' # "none" /\ state # STATE_STOPPED /\ on_time # 0 /\ off_time # 0) =>
       /\ start_ret' = "running"
       /\ UNCHANGED <<progVars, events, dispVars>>]_vars
\* a start was handled in the middle of a running ON phase
C4_Witness ==
  /\ start_ret = "running" /\ state = STATE_ONLINE /\ timer
  /\ now > last_checked_time /\ eta > 0

\* C5: a start from STOPPED gives the phase with eta = its duration D at tick
\* 0; a tick at elapsed k < D reports eta = D - k; the first tick with
\* elapsed >= D flips the phase, resets the origin and emits set_state.
C5_Countdown ==
  [][/\ (state = STATE_STOPPED /\ state' = STATE_ONLINE) =>
          (eta' = on_time /\ last_checked_time' = now')
     /\ (state = STATE_STOPPED /\ state' = STATE_OFFLINE) =>
          (eta' = off_time /\ last_checked_time' = now')
     /\ (now' = now + 1 /\ state # STATE_STOPPED) =>
          LET D == IF state = STATE_ONLINE THEN on_time ELSE off_time
              k == now' - last_checked_time
          IN IF k < D
             THEN state' = state /\ eta' = D - k /\ last_checked_time' = last_checked_time
             ELSE /\ state' # state /\ state' # STATE_STOPPED
                  /\ last_checked_time' = now'
                  /\ \E i \in 1..Len(events'[CORE]) :
                       events'[CORE][i] = Ev("set_state", <<state'>>)]_vars

IsPrefix(a, b) == Len(a) <= Len(b) /\ SubSeq(b, 1, Len(a)) = a
Quiescent == pc = "update" /\ \A o \in Objects : events[o] = <<>>

\* C6: within a pass the emitters are drained in registration order and each
\* queue oldest-first: the event a pass takes is the head of the first
\* non-empty queue it has not passed yet.
C6_OldestFirst ==
  [][(pc = "process" /\ ev = NoEv /\ ev' # NoEv) =>
       /\ \A x \in item..(item' - 1) : events[x] = <<>>
       /\ events[item'] # <<>>
       /\ ev' = Head(events[item'])
       /\ events'[item'] = Tail(events[item'])]_vars

\* C7 as claimed: every event a pass takes is delivered exactly once to every
\* registered object, in registration order, before the pass goes on.
C7_RecvInOrder ==
  /\ IsPrefix(recv, Registered)
  /\ ev # NoEv => (c = Len(recv) + 1 /\ pc = "process")
C7_DeliveredToAll ==
  /\ []C7_RecvInOrder
  /\ [][(ev # NoEv /\ ev' # ev) => recv' = Registered]_vars
\* C7 as amended: the same, except that the delivery of a reboot event ends
\* at the scheduler, whose receive flushes the bus and restarts the firmware.
C7_DeliveredToAllButReboot ==
  /\ []C7_RecvInOrder
  /\ [][(ev # NoEv /\ ev' # ev) =>
          \/ recv' = Registered
          \/ Name(ev) = "reboot" /\ recv' = <<LCD, CORE>> /\ flush']_vars
\* the scheduler's own set_state(ONLINE) has been received by every object,
\* the scheduler included
C7_Witness ==
  /\ pc = "process" /\ ev = NoEv /\ item = CORE /\ recv = Registered
  /\ title_mode = STATE_ONLINE /\ act_mode = MODE_ACTIVE

\* C8: emit only appends one entry to the caller's own queue: a poll that
\* commits a command or a duration changes no listener and no scheduler
\* field and runs no receive; the scheduler changes only when a pass delivers
\* an event to it, at a timer callback or at the restart of the firmware.
C8_EmitDeferred ==
  /\ [][(pc = "update" /\ pc' = "process") =>
          /\ UNCHANGED <<progVars, msgVars, ev, title_eta, title_mode,
                         act_mode, act_max>>
          /\ recv' = <<>>
          /\ \A o \in Objects : IsPrefix(events[o], events'[o])
          /\ \A o \in Objects \ {EVENTS} : Len(events'[o]) <= Len(events[o]) + 1
          /\ (menu_mode = MODE_EDIT /\ menu_mode' = MODE_SELECT) =>
               \A o \in Objects \ {MenuItems[menu_index' + 1], EVENTS} :
                  events'[o] = events[o]
          /\ menu_mode' = menu_mode =>
               \A o \in Objects \ {EVENTS} : events'[o] = events[o]]_vars
  /\ [][progVars' # progVars =>
          \/ pc = "process" /\ ev # NoEv /\ c = CORE
          \/ now' = now + 1
          \/ pc = "reset"]_vars
\* a stop was committed in the ON phase and the pass has not delivered it yet
C8_Witness ==
  /\ pc = "process" /\ ev = NoEv /\ item = 1
  /\ events[ACTIONS_C] = <<Ev("stop", <<>>)>>
  /\ state = STATE_ONLINE /\ timer /\ power = ON

\* C9: no event is dropped: an event leaves a queue only by being taken for
\* delivery, so every step leaves each queue as it was, extends it, or takes
\* its newest or oldest entry as the event in flight.
C9_NoEventDropped ==
  [][\A o \in Objects :
       \/ IsPrefix(events[o], events'[o])
       \/ /\ events[o] # <<>>
          /\ ev' \in {Head(events[o]), Last(events[o])}
          /\ events'[o] \in {Tail(events[o]), Front(events[o])}]_vars

\* C10: once a restart was handled in the ON phase and the bus is quiescent,
\* the scheduler runs again in the ON phase with the relay on.
C10_RestartRuns ==
  (restarted /\ Quiescent) => (state = STATE_ONLINE /\ timer /\ power = ON)

\* C11: once a reset has been handled and the bus is quiescent, the store
\* holds no duration, both duration controllers and both durations of the
\* scheduler are 0, and the scheduler is STOPPED with no timer and the relay
\* and both LEDs off.
C11_ResetClears ==
  (was_reset /\ Quiescent) =>
    /\ store = StoreClear
    /\ \A o \in TimeCtrls : time[o] = 0
    /\ on_time = 0 /\ off_time = 0
    /\ state = STATE_STOPPED /\ ~timer
    /\ power = OFF /\ led_on = OFF /\ led_off = OFF
\* the reset came after the scheduler had run with durations from the flash
C11_Witness ==
  /\ was_reset /\ Quiescent /\ now > 0
  /\ store = StoreClear /\ on_time = 0 /\ off_time = 0

\* C12: when reset() is invoked the scheduler is STOPPED, its timer is
\* cancelled, the relay and both LEDs are off, and every queue of every
\* registered object is empty.
C12_StoppedAtReset ==
  pc = "reset" =>
    /\ state = STATE_STOPPED /\ ~timer
    /\ power = OFF /\ led_on = OFF /\ led_off = OFF
C12_CleanReboot ==
  /\ C12_StoppedAtReset
  /\ pc = "reset" => \A o \in Objects : events[o] = <<>>

\* the step in which Program.receive handles the event in flight
ProgramHandles(n) ==
  /\ pc = "process" /\ ev # NoEv /\ Name(ev) = n /\ c = CORE
  /\ (ev' # ev \/ c' # c)

\* C13: handling stop leaves the timer cancelled, the phase STOPPED, the relay
\* and both LEDs off and eta 0; handled while STOPPED it leaves the phase, the
\* timer, the outputs and eta as they are.
C13_StopStops ==
  [][ProgramHandles("stop") =>
       /\ ~timer' /\ state' = STATE_STOPPED
       /\ power' = OFF /\ led_on' = OFF /\ led_off' = OFF /\ eta' = 0
       /\ state = STATE_STOPPED =>
            UNCHANGED <<state, timer, power, led_on, led_off, eta>>]_vars
\* a stop has just been handled in a phase that had been running for a while
C13_Witness ==
  /\ state = STATE_STOPPED /\ ~timer /\ eta = 0 /\ power = OFF
  /\ events[CORE] = <<Ev("set_state", <<STATE_STOPPED>>)>>
  /\ now > last_checked_time /\ pc = "update" /\ ~was_reset

\* C14: handling next while ONLINE or OFFLINE flips the phase to the other
\* running phase whatever the elapsed time, resets the origin, sets the relay
\* and the LEDs for the new phase and emits set_state; the timer keeps running.
C14_NextFlips ==
  [][(ProgramHandles("next") /\ state # STATE_STOPPED) =>
       /\ state' = (IF state = STATE_ONLINE THEN STATE_OFFLINE ELSE STATE_ONLINE)
       /\ last_checked_time' = now
       /\ power' = (IF state' = STATE_ONLINE THEN ON ELSE OFF)
       /\ led_on' = power' /\ led_off' = 1 - power'
       /\ timer /\ timer'
       /\ events'[CORE] = events[CORE] \o <<Ev("set_state", <<state'>>),
                                           Ev("update_eta", <<0>>)>>]_vars
\* the ON phase was ended by next before its duration had elapsed
C14_Witness ==
  /\ state = STATE_OFFLINE /\ timer /\ power = OFF /\ led_off = ON
  /\ now > 0 /\ now < on_time /\ last_checked_time = now
  /\ events[CORE] = <<Ev("set_state", <<STATE_OFFLINE>>), Ev("update_eta", <<0>>)>>

\* C15: the value of a duration controller stays in [0, 6000) under every
\* sequence of on_left, on_right, on_exit and receive('reset').
C15_DurationInRange ==
  \A o \in TimeCtrls : 0 <= time[o] /\ time[o] < TimeLimit
\* on_left has just wrapped the value from 5999 to 0
C15_Witness ==
  op = "on_left" /\ time[ONLINE_C] = 0 /\ d0 = 5999 /\ lefts = 1 /\ wraps = 1

\* C16: on_left increments (5999 wraps to 0) and on_right decrements (0 stays
\* 0); 6000 successive on_left calls from d return to d through exactly one
\* wraparound, which is the step 5999 -> 0.
C16_RunReturns ==
  /\ (d0 # NoneV /\ lefts = TimeLimit) => (time[ONLINE_C] = d0 /\ wraps = 1)
  /\ d0 # NoneV => wraps <= 1
C16_LeftIncrements ==
  /\ []C16_RunReturns
  /\ [][/\ op' = "on_left" =>
             time'[ONLINE_C] = (IF time[ONLINE_C] = TimeLimit - 1 THEN 0
                                ELSE time[ONLINE_C] + 1)
        /\ op' = "on_right" =>
             time'[ONLINE_C] = (IF time[ONLINE_C] = 0 THEN 0 ELSE time[ONLINE_C] - 1)
        /\ wraps' > wraps =>
             (time[ONLINE_C] = TimeLimit - 1 /\ time'[ONLINE_C] = 0)]_vars
\* a run of 6000 on_left calls from 2999 is complete
C16_Witness ==
  d0 = 2999 /\ lefts = TimeLimit /\ time[ONLINE_C] = 2999 /\ wraps = 1

\* C17: every EDIT -> SELECT transition on a duration controller stores the
\* controller's value under its event name and emits exactly one changed
\* event carrying it (in seconds), whether or not the value was modified.
C17_CommitOnExit ==
  [][\A o \in TimeCtrls :
       (menu_mode = MODE_EDIT /\ menu_mode' = MODE_SELECT
          /\ MenuItems[menu_index + 1] = o) =>
         /\ EventName(o) \in DOMAIN store'
         /\ store'[EventName(o)] = time'[o]
         /\ events'[o] = Append(events[o], Ev(EventName(o), <<time'[o] * SecPerMin>>))]_vars
\* the ON controller was entered and left with its value untouched: the value
\* the scheduler already holds is committed again
C17_Witness ==
  /\ pc = "process" /\ inputs = 2 /\ menu_mode = MODE_SELECT
  /\ time[ONLINE_C] = 1 /\ store[EventName(ONLINE_C)] = 1 /\ on_time = SecPerMin
  /\ events[ONLINE_C] = <<Ev("online_changed", <<SecPerMin>>)>>

\* C18: a duration controller constructed after a restart holds the value the
\* store has for its key; the caller default is used only when the store has
\* none, and 0 only when there is neither.
C18_StoredIsAuthoritative ==
  [][op' = "new" =>
       time'[ONLINE_C] =
         (IF EventName(ONLINE_C) \in DOMAIN store THEN store[EventName(ONLINE_C)]
          ELSE IF init_time' # NoneV THEN init_time'
          ELSE 0)]_vars
\* C18, stored values other than 0: a stored v > 0 is restored whatever the
\* caller default; with nothing stored the default, or 0, is taken
C18_PositiveStoredIsAuthoritative ==
  [][op' = "new" =>
       time'[ONLINE_C] =
         (IF EventName(ONLINE_C) \in DOMAIN store /\ store[EventName(ONLINE_C)] > 0
          THEN store[EventName(ONLINE_C)]
          ELSE IF init_time' # NoneV THEN init_time'
          ELSE 0)]_vars

\* C19: the selection is always one of the three selectable slots of the
\* 4-slot menu; a step in SELECT mode moves it by one slot, or by two when the
\* first lands on the title; three steps in one direction visit the three
\* selectable slots and return, and a step back undoes a step.
C19_IndexSelectable ==
  /\ menu_index \in 0..3
  /\ MenuItems[menu_index + 1] \in {ONLINE_C, OFFLINE_C, ACTIONS_C}
  /\ LET i == menu_index
         r1 == NavRight(i)
         r2 == NavRight(r1)
         l1 == NavLeft(i)
         l2 == NavLeft(l1)
     IN /\ NavRight(r2) = i /\ Cardinality({i, r1, r2}) = 3
        /\ NavLeft(l2) = i /\ Cardinality({i, l1, l2}) = 3
        /\ NavLeft(r1) = i /\ NavRight(l1) = i
        /\ r1 \in {(i + 1) % 4, (i + 2) % 4}
        /\ l1 \in {(i + 3) % 4, (i + 2) % 4}
C19_Navigation ==
  /\ []C19_IndexSelectable
  /\ [][menu_index' # menu_index =>
          \/ /\ pc = "update" /\ pc' = "process" /\ menu_mode = MODE_SELECT
             /\ menu_index' \in {NavLeft(menu_index), NavRight(menu_index)}
          \/ pc = "reset"]_vars
\* one step left from the first selectable slot skipped the title and wrapped
C19_Witness ==
  /\ inputs = 1 /\ pc = "process" /\ menu_mode = MODE_SELECT
  /\ menu_index = 3 /\ MenuItems[menu_index + 1] = ACTIONS_C

\* the poll in which Events.update sees the button go down
PressStep ==
  pc = "update" /\ pc' = "process" /\ last_btn_value = 1 /\ last_btn_value' = 0

\* C20: each press toggles the mode between SELECT and EDIT and leaves the
\* selection where it is; the mode changes at no other step; the selection
\* does not move while in EDIT, so the on_exit of a press in EDIT goes to the
\* controller that was entered, once: only that controller's queue grows, by
\* at most one event, and entering emits nothing.
C20_PressToggles ==
  [][/\ PressStep =>
          /\ menu_mode' = (IF menu_mode = MODE_SELECT THEN MODE_EDIT ELSE MODE_SELECT)
          /\ Len(events'[EVENTS]) = Len(events[EVENTS]) + 1 => menu_index' = menu_index
          /\ \A o \in Objects \ {EVENTS} :
               IF menu_mode = MODE_EDIT /\ o = MenuItems[menu_index + 1]
               THEN /\ IsPrefix(events[o], events'[o])
                    /\ Len(events'[o]) <= Len(events[o]) + 1
               ELSE events'[o] = events[o]
     /\ menu_mode' # menu_mode => (PressStep \/ pc = "reset")
     /\ (menu_mode = MODE_EDIT /\ pc # "reset") => menu_index' = menu_index]_vars
\* the OFF controller was selected, entered and left again
C20_Witness ==
  /\ inputs = 3 /\ pc = "process" /\ menu_mode = MODE_SELECT /\ menu_index = 2
  /\ events[OFFLINE_C] # <<>> /\ events[ONLINE_C] = <<>> /\ events[ACTIONS_C] = <<>>
  /\ last_btn_value = 0

\* the poll in which Events.update sees the encoder move and no press
TurnStep ==
  /\ pc = "update" /\ pc' = "process" /\ ~PressStep
  /\ Len(events'[EVENTS]) = Len(events[EVENTS]) + 1

\* C21: a turn of the encoder in EDIT mode goes to the focused controller's
\* handler only: the menu's mode and selection, the other controllers' values
\* and every controller's queue are unchanged, and the focused controller's
\* value is what its on_left or on_right gives.
C21_EditDelegates ==
  [][(TurnStep /\ menu_mode = MODE_EDIT) =>
       LET focus == <<TITLE, ONLINE_C, OFFLINE_C, ACTIONS_C>>[menu_index + 1] IN
       /\ menu_mode' = menu_mode /\ menu_index' = menu_index
       /\ \A o \in TimeCtrls \ {focus} : time'[o] = time[o]
       /\ focus # ACTIONS_C => act_index' = act_index
       /\ UNCHANGED <<act_max, act_mode, title_eta, title_mode, store>>
       /\ \A o \in Objects \ {EVENTS} : events'[o] = events[o]
       /\ focus \in TimeCtrls =>
            time'[focus] \in {IF time[focus] + 1 >= TimeLimit THEN 0 ELSE time[focus] + 1,
                              IF time[focus] = 0 THEN 0 ELSE time[focus] - 1}
       /\ focus = ACTIONS_C =>
            act_index' \in {IF act_index = 0 THEN act_max ELSE act_index - 1,
                            IF act_index = act_max THEN 0 ELSE act_index + 1}]_vars
\* the OFF controller is being edited: its value went up, the ON controller's
\* did not
C21_Witness ==
  /\ pc = "process" /\ menu_mode = MODE_EDIT /\ menu_index = 2
  /\ time[OFFLINE_C] = 1 /\ time[ONLINE_C] = 0 /\ store[EventName(OFFLINE_C)] = 0
  /\ inputs = 2

\* the poll whose press leaves EDIT mode with the Action controller focused
ActionExit == PressStep /\ menu_mode = MODE_EDIT /\ menu_index = 3
\* the event names of the commands, by mode and index; "" for the sentinel
C22_Names ==
  [m \in {MODE_INACTIVE, MODE_ACTIVE} |->
     IF m = MODE_INACTIVE THEN <<"start_on", "start_off", "reset", "reboot", "">>
     ELSE <<"stop", "next", "reset", "reboot", "">>]
\* the queue of the Action controller after on_exit with index i selected
C22_After(i) ==
  IF C22_Names[act_mode][i + 1] = "" THEN events[ACTIONS_C]
  ELSE Append(events[ACTIONS_C], Ev(C22_Names[act_mode][i + 1], <<>>))
\* C22: on exit the Action controller emits exactly one event, named by the
\* selected command in lower case with '_' for ' ', and none for the sentinel;
\* either way its index is 0 afterwards. (The encoder may have moved the
\* selection in the same poll, before the press.)
C22_ExitEmits ==
  [][ActionExit =>
       /\ act_index' = 0
       /\ IF Len(events'[EVENTS]) = Len(events[EVENTS]) + 1
          THEN events'[ACTIONS_C] = C22_After(act_index)
          ELSE \E i \in {IF act_index = 0 THEN act_max ELSE act_index - 1,
                         IF act_index = act_max THEN 0 ELSE act_index + 1} :
                 events'[ACTIONS_C] = C22_After(i)
       /\ \A o \in Objects \ {ACTIONS_C, EVENTS} : events'[o] = events[o]]_vars
\* START OFF was selected and left: start_off is queued, the index is 0
C22_Witness ==
  /\ pc = "process" /\ menu_mode = MODE_SELECT /\ menu_index = 3
  /\ act_index = 0 /\ act_max = 4
  /\ events[ACTIONS_C] = <<Ev("start_off", <<>>)>>
\* the sentinel was selected and left: nothing is queued, the index is 0
C22_SentinelLeft ==
  /\ pc = "process" /\ menu_mode = MODE_SELECT /\ menu_index = 3
  /\ act_index = 0 /\ act_max = 4 /\ last_btn_value = 0 /\ inputs = 3
  /\ events[ACTIONS_C] = <<>> /\ Len(events[EVENTS]) = 2

\* C24: handling online_changed or offline_changed stores the new duration
\* and nothing else: the phase, the origin, eta, the timer, the relay and the
\* LEDs are unchanged and no event is emitted; the tick that follows measures
\* the running phase against the stored duration.
C24_DurationOnly ==
  [][/\ ProgramHandles("online_changed") =>
          /\ on_time' = Args(ev)[1]
          /\ UNCHANGED <<state, timer, off_time, eta, last_checked_time, led_on,
                         led_off, power, events, store, dispVars>>
     /\ ProgramHandles("offline_changed") =>
          /\ off_time' = Args(ev)[1]
          /\ UNCHANGED <<state, timer, on_time, eta, last_checked_time, led_on,
                         led_off, power, events, store, dispVars>>
     /\ (now' = now + 1 /\ state # STATE_STOPPED) =>
          LET dur == IF state = STATE_ONLINE THEN on_time ELSE off_time
              offs == now' - last_checked_time IN
          IF offs >= dur THEN state' \notin {state, STATE_STOPPED}
          ELSE state' = state /\ eta' = dur - offs]_vars
\* the ON duration was set to 0 while the ON phase was running: the phase,
\* its origin and the relay are as they were
C24_Witness ==
  /\ state = STATE_ONLINE /\ timer /\ power = ON /\ on_time = 0
  /\ now > last_checked_time /\ pc = "update"

\* C29: the Action controller's index is always valid,
\* 0 <= current_index <= max_index < len(actions[mode]), before the first
\* set_state and across mode changes in EDIT mode too; a turn of the encoder
\* on the focused Action controller moves the index by one, from 0 to
\* max_index going down and from max_index to 0 going up.
C29_IndexValid ==
  /\ [](/\ act_index \in 0..act_max
        /\ act_max < Len(actions(act_mode))
        /\ act_mode \in {MODE_INACTIVE, MODE_ACTIVE})
  /\ [][(TurnStep /\ menu_mode = MODE_EDIT /\ menu_index = 3) =>
          \/ act_index' = (act_index + 1) % (act_max + 1)
          \/ act_index' = (act_index + act_max) % (act_max + 1)]_vars
\* the Action controller is being edited in its ACTIVE mode, a phase running,
\* with the sentinel at max_index selected
C29_Witness ==
  /\ menu_mode = MODE_EDIT /\ menu_index = 3
  /\ act_mode = MODE_ACTIVE /\ act_index = 4 /\ act_max = 4
  /\ state # STATE_STOPPED /\ pc = "update"

\* C27: a pass of process_events during which no timer callback ran returns
\* with every object's queue empty, the queues its handlers emitted into
\* included.
C27_FullDrain ==
  [][(pc = "process" /\ pc' # "process" /\ ~fired) =>
       \A o \in Objects : events'[o] = <<>>]_vars

\* C30: between passes with every queue empty, the status line's mode is the
\* scheduler's phase and the Action controller is ACTIVE exactly when the
\* phase is not STOPPED.
C30_ListenersAgree ==
  Quiescent =>
    /\ title_mode = state
    /\ (act_mode = MODE_ACTIVE) <=> (state # STATE_STOPPED)

\* the indicators the display shows: the lines with '>' in column 0 and the
\* lines with '<' in column 19
Marks == {<<0, i>> : i \in {j \in Rows : col0[j] # " "}}
         \cup {<<19, i>> : i \in {j \in Rows : col19[j] # " "}}
\* the only indicator is the one of the mode, on the selected line
OneIndicator ==
  /\ Marks = {<<IF menu_mode = MODE_SELECT THEN 0 ELSE 19, menu_index>>}
  /\ menu_mode = MODE_SELECT => col0[menu_index] = ">"
  /\ menu_mode = MODE_EDIT => col19[menu_index] = "<"
\* a step that redraws the indicator: a poll that saw a press or, in SELECT
\* mode, a turn, or Menu receiving rerender
Redraw ==
  \/ PressStep
  \/ TurnStep /\ menu_mode = MODE_SELECT
  \/ pc = "process" /\ ev # NoEv /\ Name(ev) = "rerender" /\ c <= MENU /\ c' > MENU
\* C23: with rendering enabled the display never shows more than one
\* indicator, and never a wrong one; after every redraw of the indicator the
\* other mode's column is blank on all four lines and the only indicator is
\* '>' in column 0 of the selected line in SELECT mode, '<' in column 19 of
\* the selected line in EDIT mode.
C23_OneIndicator ==
  /\ [](render_enabled => (Marks = {} \/ OneIndicator))
  /\ [][(Redraw /\ render_enabled) => OneIndicator']_vars
\* the selection went from SELECT on the OFF line to EDIT on it: '<' is the
\* only indicator
C23_Witness ==
  /\ render_enabled /\ menu_mode = MODE_EDIT /\ menu_index = 2
  /\ col19 = [Blank EXCEPT ![2] = "<"] /\ col0 = Blank
  /\ inputs = 2 /\ pc = "process"

\* Menu.receive takes the rerender in delivery
MenuRerenders ==
  pc = "process" /\ ev # NoEv /\ Name(ev) = "rerender" /\ c <= MENU /\ c' > MENU
\* C28: a message with a timeout suppresses rendering while its timer is
\* armed: no print_line changes the display. When the timer fires rendering
\* is enabled again and rerender is emitted; Menu, receiving it with rendering
\* enabled, draws all four lines and the indicator. Rendering is never
\* suppressed forever, a second message before the time-out included, and a
\* queued rerender reaches the Menu.
C28_MessageTimesOut ==
  /\ [](~render_enabled => lcd_timer)
  /\ [][(~render_enabled /\ ~render_enabled') => UNCHANGED <<col0, col19, drawn>>]_vars
  /\ [][(~render_enabled /\ render_enabled' /\ pc # "reset") =>
          /\ ~lcd_timer'
          /\ events'[LCD] = Append(events[LCD], Ev("rerender", <<>>))]_vars
  /\ [][(MenuRerenders /\ render_enabled) => (drawn' = Rows /\ OneIndicator')]_vars
  /\ ~render_enabled ~> render_enabled
  /\ (events[LCD] # <<>>) ~> (events[LCD] = <<>>)
\* the message has timed out and the Menu has just drawn the display again
\* (the event just delivered to every object came from the Display's queue)
C28_Witness ==
  /\ pc = "process" /\ ev = NoEv /\ item = LCD /\ Len(recv) = NObj
  /\ render_enabled /\ ~lcd_timer /\ drawn = Rows /\ OneIndicator

\* a phase with both durations positive is running and its duration ends
\* within the clock bound of the model
Running(st) ==
  /\ state = st /\ timer /\ on_time > 0 /\ off_time > 0
  /\ last_checked_time + (IF st = STATE_ONLINE THEN on_time ELSE off_time) <= MaxTime
\* the second passes: the periodic timer's callback runs
Ticks == now' = now + 1
\* C26: the phase leaves STOPPED only when an accepted start_on (to ONLINE) or
\* start_off (to OFFLINE) is handled; a running phase changes to the other
\* running phase only by a tick at or after its duration or by next, and to
\* STOPPED only by stop, reset or reboot, never by a tick; and while both
\* durations are positive and the timer fires, the running phase ends and the
\* phase is no longer the one that was running (unless a duration is changed
\* to 0 or beyond the clock bound of the model meanwhile).
C26_PhaseMachine ==
  /\ [][(state = STATE_STOPPED /\ state' # STATE_STOPPED) =>
          /\ start_ret' = "ok"
          /\ \/ ProgramHandles("start_on") /\ state' = STATE_ONLINE
             \/ ProgramHandles("start_off") /\ state' = STATE_OFFLINE]_vars
  /\ [][(state # STATE_STOPPED /\ state' \notin {state, STATE_STOPPED}) =>
          \/ ProgramHandles("next")
          \/ /\ Ticks
             /\ now' - last_checked_time >=
                  (IF state = STATE_ONLINE THEN on_time ELSE off_time)]_vars
  /\ [][(state # STATE_STOPPED /\ state' = STATE_STOPPED) =>
          /\ ~Ticks
          /\ \E n \in {"stop", "reset", "reboot"} : ProgramHandles(n)]_vars
  /\ Running(STATE_ONLINE) ~> (state # STATE_ONLINE \/ ~Running(STATE_ONLINE))
  /\ Running(STATE_OFFLINE) ~> (state # STATE_OFFLINE \/ ~Running(STATE_OFFLINE))
\* an ON phase begun at second 1 by next has run its 60 seconds and ended by
\* itself
C26_Witness ==
  /\ state = STATE_OFFLINE /\ timer /\ now = 61 /\ last_checked_time = 61
  /\ on_time = 60 /\ off_time = 60 /\ power = OFF

\* the fields the callback and the handlers share: phase, timer, origin,
\* relay, LEDs
Shared(S) == <<S.state, S.timer, S.last_checked_time, S.power, S.led_on, S.led_off>>
ProgLeft ==
  [state |-> state', timer |-> timer', on_time |-> on_time', off_time |-> off_time',
   eta |-> eta', last_checked_time |-> last_checked_time',
   led_on |-> led_on', led_off |-> led_off', power |-> power']
HandlerEnds == hpc # "idle" /\ hpc' = "idle" /\ Name(pre.e) \in {n[1] : n \in RaceCommands}

\* C25: when the handling of stop, reset, next or start_* ends and the tick
\* callback has run between two of its statements, the phase, timer, origin,
\* relay and LEDs are those of the callback run wholly before the handler or
\* wholly after it; and when the handling of stop ends the phase is STOPPED,
\* no timer runs and the relay and LEDs are off
C25_Serializable ==
  [][HandlerEnds =>
       /\ pre.cb =>
            Shared(ProgLeft) \in
              {Shared(ReceiveF(UpdateF(pre.S, now, FALSE), pre.e, now)),
               Shared(UpdateF(ReceiveF(pre.S, pre.e, now), now, FALSE))}
       /\ Name(pre.e) = "stop" =>
            /\ state' = STATE_STOPPED /\ ~timer'
            /\ power' = OFF /\ led_on' = OFF /\ led_off' = OFF]_vars

\* C31: whenever the menu is in SELECT mode and the bus is quiescent (main is
\* about to poll and every queue is empty) the scheduler's ON duration is 60
\* times the ON controller's minutes and its OFF duration 60 times the OFF
\* controller's
C31_DurationsAgree ==
  (Quiescent /\ menu_mode = MODE_SELECT) =>
     /\ on_time = SecPerMin * time[ONLINE_C]
     /\ off_time = SecPerMin * time[OFFLINE_C]
\* a committed minute has reached the scheduler
C31_Witness ==
  /\ Quiescent /\ menu_mode = MODE_SELECT /\ inputs >= 3
  /\ time[ONLINE_C] = 1 /\ on_time = SecPerMin
  /\ time[OFFLINE_C] = 0 /\ off_time = 0

\* the update_eta events waiting in the scheduler's queue
QueuedEta == {events[CORE][i][2][1] : i \in {j \in 1..Len(events[CORE]) :
                                              events[CORE][j][1] = "update_eta"}}
CallbackRuns == due /\ ~due'

\* C32: every update_eta event carries a value >= 0, whoever emits it (the
\* tick callback or a forced next, with the callback running between any two
\* statements of main's handler); the callback of a running phase whose
\* elapsed time has reached the duration flips the phase and emits 0,
\* otherwise it emits duration - elapsed > 0; while STOPPED it emits the
\* stored eta as it is
C32_EtaNonNegative ==
  /\ [](\A v \in QueuedEta : v >= 0)
  /\ [][CallbackRuns =>
          LET D == IF state = STATE_ONLINE THEN on_time ELSE off_time
              k == now - last_checked_time
              sent == Last(events'[CORE])
          IN /\ Len(events'[CORE]) > Len(events[CORE])
             /\ Name(sent) = "update_eta"
             /\ Args(sent)[1] = eta'
             /\ CASE state = STATE_STOPPED -> eta' = eta /\ eta' >= 0 /\ state' = state
                  [] state # STATE_STOPPED /\ k >= D -> eta' = 0 /\ state' = Other(state)
                  [] OTHER -> eta' = D - k /\ eta' > 0 /\ state' = state]_vars
\* a running phase whose duration was shortened to 0 has been ended by the
\* callback, which emitted eta 0
C32_Witness ==
  /\ hpc = "idle" /\ ~due /\ now > 0 /\ last_checked_time = now
  /\ state = STATE_ONLINE /\ off_time = 0
  /\ Len(events[CORE]) >= 2 /\ Last(events[CORE]) = Ev("update_eta", <<0>>)

\* no input has been taken for longer than the idle timeout and the display
\* is not idle
Quiet == ~is_idle /\ now - last_active > IDLE_TIMEOUT

\* C33: whenever no input has occurred for longer than the idle timeout while
\* the display is not idle, idle_on is eventually emitted (the IdleTimer gets
\* idle) unless an input is taken first, also after stop, reset or next
C33_IdleLive == Quiet ~> (is_idle \/ now - last_active <= IDLE_TIMEOUT)

\* C34: whenever Events is in idle mode the IdleTimer is idle too, and an
\* input found while the backlight is on, with no idle_on waiting on the bus,
\* reaches the Menu
C34_WithheldOnlyIdle ==
  /\ [](is_idle_mode => is_idle)
  /\ [][(pc = "update" /\ pc' = "process" /\ backlight
         /\ \A o \in Objects : \A i \in 1..Len(events[o]) : Name(events[o][i]) # "idle_on")
        => key' # "withheld"]_vars
====
